---- MODULE Spec2Model ----
(***************************************************************************)
(* Verification model of the reddit-context-bot core:                      *)
(*   - RuleSet.run            (condition-tree evaluator, AND/OR join)      *)
(*   - SubredditResources     (TTL-aware resource cache)                   *)
(*   - BotResourcesManager    (one resource cache per community)           *)
(*   - ConfigBuilder          (named rules and actions of a configuration) *)
(* Each asynchronous method is split into one action per run-to-completion *)
(* segment between two awaits.                                             *)
(***************************************************************************)
EXTENDS Integers, Sequences, FiniteSets, TLC

(***************************************************************************)
(* Bounds of the model.                                                    *)
(***************************************************************************)
MaxRules == 3
MaxExisting == 1
\* invocations of cache methods in one behaviour (they may all be in flight at once)
MaxCalls == 2
\* the clock runs from 0 to MaxTime seconds
MaxTime == 2
\* the finite positive TTL, in seconds, a category may be configured with
MaxTTL == 1
\* the platform's copy of an activity changes at most MaxVersion times
MaxVersion == 1
\* calls of BotResourcesManager.set in one behaviour
MaxSets == 2
\* firings of one prune timer in one behaviour
MaxFires == 1
\* activities one resource cache memoizes between two resets of its statistics
MaxUses == 1
\* checks in a configuration
MaxChecks == 2
\* rules, actions and strings in a configuration
MaxLeaves == 3
\* rule sets within rule sets
MaxDepth == 2
\* entries in a list of item criteria
MaxEntries == 2
\* keys in the entries of a list of item criteria
MaxFields == 2

VARIABLES
    \* ---- RuleSet (src/unnamed/part_003) ----
    condition,        \* this.condition: "AND" | "OR"
    rules,            \* this.rules: each child rule with the outcome its run yields
    existingResults,  \* argument existingResults of run
    results,          \* local results of run
    runOne,           \* local runOne of run
    rsIdx,            \* position of the for..of loop over this.rules
    rsPc,             \* position of run: "idle", "loop", "await", "done"
    rsCalls,          \* the calls r.run(item, combinedResults) made so far
    rsRet,            \* the value run returned
    \* ---- SubredditResources (src/src/Subreddit/SubredditResources.ts) ----
    submissionTTL,    \* this.submissionTTL
    commentTTL,       \* this.commentTTL
    authorTTL,        \* this.authorTTL
    cache,            \* this.cache: the backing store, key -> [val, setAt, ttl]
    stats,            \* this.stats.cache: category -> usage counters
    now,              \* Date.now(), in seconds
    remote,           \* the platform's current version of the activities
    calls,            \* the invocations of cache methods: position and locals of each
    started,          \* how many invocations have been made
    obs,              \* per invocation: what it did to the store, the stats, the platform
    \* ---- BotResourcesManager (src/src/Subreddit/SubredditResources.ts) ----
    botCaching,       \* config.caching of the bot: [ttl, provider]
    resources,        \* this.resources: community -> the SubredditResources registered
    instances,        \* every SubredditResources constructed so far, in order
    stores,           \* every backing store created so far; stores[1] is this.defaultCache
    timers,           \* every interval set and not cleared
    sets,             \* how many calls of set have been made
    lastSet,          \* the last call of set: its arguments and what it returned
    \* ---- ConfigBuilder (src/unnamed/part_000) ----
    config,           \* config.checks of the document
    parsed,           \* what parseToStructured(config) returned or threw
    reparsed,         \* what parseToStructured did on the checks it had returned
    \* ---- SubredditResources: criteria, content, check results ----
    wikiTTL,          \* this.wikiTTL
    filterCriteriaTTL,\* this.filterCriteriaTTL
    stateCriteria,    \* the item criteria the checks of the community test with
    lastCall          \* the last call of one of these methods made and completed

rsVars == <<condition, rules, existingResults, results, runOne, rsIdx, rsPc,
            rsCalls, rsRet>>

cacheVars == <<submissionTTL, commentTTL, authorTTL, cache, stats, now, remote,
               calls, started, obs>>

mgrVars == <<botCaching, resources, instances, stores, timers, sets, lastSet>>

cfgVars == <<config, parsed, reparsed>>

itemVars == <<wikiTTL, filterCriteriaTTL, stateCriteria, lastCall>>

vars == <<rsVars, cacheVars, mgrVars, cfgVars, itemVars>>

(***************************************************************************)
(* RuleSet                                                                 *)
(***************************************************************************)
JoinOperands == {"AND", "OR"}

\* passed of Rule.run: true, false, or null (rule not applicable to the item)
Passed == {"true", "false", "null"}

\* a child rule is its position in the declaration and the passed flag its run yields
RuleLists ==
    UNION {{f \in [1..n -> [name : 1..n, passed : Passed]] :
                \A i \in 1..n : f[i].name = i} : n \in 0..MaxRules}

\* results handed in by the caller (results of rules that ran before this set)
ExistingLists ==
    {[i \in 1..n |-> [name |-> 0 - i, passed |-> "true"]] : n \in 0..MaxExisting}

\* the RuleResult a child's run returns
ResultOf(r) == [name |-> r.name, passed |-> r.passed]

NoRet == [returned |-> FALSE, triggered |-> FALSE, results |-> <<>>]

RuleSetInit ==
    /\ condition \in JoinOperands
    /\ rules \in RuleLists
    /\ existingResults \in ExistingLists
    /\ results = <<>>
    /\ runOne = FALSE
    /\ rsIdx = 0
    /\ rsPc = "idle"
    /\ rsCalls = <<>>
    /\ rsRet = NoRet

\* run: entry, lines 44-46
RunStart ==
    /\ rsPc = "idle"
    /\ results' = <<>>
    /\ runOne' = FALSE
    /\ rsIdx' = 1
    /\ rsPc' = "loop"
    /\ UNCHANGED <<condition, rules, existingResults, rsCalls, rsRet, cacheVars, mgrVars, cfgVars, itemVars>>

\* a later child is handed the caller's results without those of its siblings
CombinedResultsNoSiblings(existing, res) == existing

\* line 48: [...existingResults, ...results]
CombinedResults(existing, res) == existing \o res

\* run: lines 47-49, up to the await of r.run(item, combinedResults)
RunCallChild ==
    /\ rsPc = "loop"
    /\ rsIdx <= Len(rules)
    /\ LET combinedResults == CombinedResults(existingResults, results)
       IN  rsCalls' = Append(rsCalls, [rule |-> rules[rsIdx].name,
                                       prior |-> combinedResults])
    /\ rsPc' = "await"
    /\ UNCHANGED <<condition, rules, existingResults, results, runOne, rsIdx, rsRet, cacheVars, mgrVars, cfgVars, itemVars>>

\* AND does not stop at a failing child
ChildDecisionAndRunsOn(cond, passed) ==
    IF passed = "null" THEN [act |-> "continue", ran |-> FALSE, flag |-> FALSE]
    ELSE IF passed = "true" /\ cond = "OR"
         THEN [act |-> "return", ran |-> TRUE, flag |-> TRUE]
         ELSE [act |-> "continue", ran |-> TRUE, flag |-> FALSE]

\* OR does not stop at a passing child
ChildDecisionOrRunsOn(cond, passed) ==
    IF passed = "null" THEN [act |-> "continue", ran |-> FALSE, flag |-> FALSE]
    ELSE IF passed = "false" /\ cond = "AND"
         THEN [act |-> "return", ran |-> TRUE, flag |-> FALSE]
         ELSE [act |-> "continue", ran |-> TRUE, flag |-> FALSE]

\* a not-applicable child is treated as a failing one
ChildDecisionNullFails(cond, passed) ==
    IF passed = "true"
    THEN IF cond = "OR" THEN [act |-> "return", ran |-> TRUE, flag |-> TRUE]
         ELSE [act |-> "continue", ran |-> TRUE, flag |-> FALSE]
    ELSE IF cond = "AND" THEN [act |-> "return", ran |-> TRUE, flag |-> FALSE]
         ELSE [act |-> "continue", ran |-> TRUE, flag |-> FALSE]

\* AND returns true at its first passing child
ChildDecisionAndReturnsOnPass(cond, passed) ==
    IF passed = "null" THEN [act |-> "continue", ran |-> FALSE, flag |-> FALSE]
    ELSE IF passed = "true" THEN [act |-> "return", ran |-> TRUE, flag |-> TRUE]
    ELSE IF cond = "AND" THEN [act |-> "return", ran |-> TRUE, flag |-> FALSE]
    ELSE [act |-> "continue", ran |-> TRUE, flag |-> FALSE]

\* the decision of lines 53-63 on the passed flag of the child that returned:
\* "continue" (next child) or "return" with a flag
ChildDecision(cond, passed) ==
    IF passed = "null" THEN [act |-> "continue", ran |-> FALSE, flag |-> FALSE]
    ELSE IF passed = "true"
         THEN IF cond = "OR" THEN [act |-> "return", ran |-> TRUE, flag |-> TRUE]
              ELSE [act |-> "continue", ran |-> TRUE, flag |-> FALSE]
         ELSE IF cond = "AND" THEN [act |-> "return", ran |-> TRUE, flag |-> FALSE]
              ELSE [act |-> "continue", ran |-> TRUE, flag |-> FALSE]

\* run: lines 49-63, from the resumption after the await to the next iteration
RunChildReturns ==
    /\ rsPc = "await"
    /\ LET result == ResultOf(rules[rsIdx])
           d == ChildDecision(condition, rules[rsIdx].passed)
       IN  /\ results' = Append(results, result)
           /\ runOne' = (runOne \/ d.ran)
           /\ IF d.act = "return"
              THEN /\ rsRet' = [returned |-> TRUE, triggered |-> d.flag,
                                results |-> Append(results, result)]
                   /\ rsPc' = "done"
                   /\ rsIdx' = rsIdx
              ELSE /\ rsRet' = rsRet
                   /\ rsPc' = "loop"
                   /\ rsIdx' = rsIdx + 1
    /\ UNCHANGED <<condition, rules, existingResults, rsCalls, cacheVars, mgrVars, cfgVars, itemVars>>

\* the check of runOne is missing: a set that ran off the end always triggers
FinalFlagIgnoresRunOne(ran) == TRUE

\* the flag returned when the loop ran off the end, lines 65-69
FinalFlag(ran) == IF ~ran THEN FALSE ELSE TRUE

\* run: lines 65-69, the loop is exhausted
RunFinish ==
    /\ rsPc = "loop"
    /\ rsIdx > Len(rules)
    /\ rsRet' = [returned |-> TRUE, triggered |-> FinalFlag(runOne), results |-> results]
    /\ rsPc' = "done"
    /\ UNCHANGED <<condition, rules, existingResults, results, runOne, rsIdx, rsCalls, cacheVars, mgrVars, cfgVars, itemVars>>

RuleSetNext ==
    \/ RunStart
    \/ RunCallChild
    \/ RunChildReturns
    \/ RunFinish


\* run as a function of the set's condition and children (lines 44-70), from
\* child i on with the results and the runOne flag accumulated so far
RECURSIVE RunFrom(_, _, _, _, _)
RunFrom(cond, rs, i, res, ran) ==
    IF i > Len(rs)
    THEN [triggered |-> FinalFlag(ran), results |-> res]
    ELSE LET d == ChildDecision(cond, rs[i].passed)
             res2 == Append(res, ResultOf(rs[i]))
         IN  IF d.act = "return"
             THEN [triggered |-> d.flag, results |-> res2]
             ELSE RunFrom(cond, rs, i + 1, res2, ran \/ d.ran)

(***************************************************************************)
(* SubredditResources: state                                               *)
(***************************************************************************)
\* a TTL setting: false (category disabled), 0 (cache forever) or seconds
TTLFalse == [enabled |-> FALSE, secs |-> 0]
TTLSecs(n) == [enabled |-> TRUE, secs |-> n]
TTLSettings == {TTLFalse, TTLSecs(0), TTLSecs(MaxTTL)}

\* the activities the bot is handed: a submission and a comment, by fullname
Items == {[kind |-> "submission", name |-> "t3_s"], [kind |-> "comment", name |-> "t1_c"]}

Categories ==
    {"submission", "comment", "author", "content", "authorCrit", "itemCrit",
     "commentCheck"}

\* cacheStats(): the counters of one category
EmptyStats ==
    [requests |-> 0, miss |-> 0, requestTimestamps |-> <<>>,
     identifierRequestCount |-> <<>>]

\* what one invocation has done so far
NoObs ==
    [req |-> [c \in Categories |-> 0], miss |-> [c \in Categories |-> 0],
     stamps |-> [c \in Categories |-> 0], ids |-> 0,
     reads |-> 0, writes |-> <<>>, fetches |-> 0]

NoVal == [name |-> "", ver |-> 0]
NoResult == [kind |-> "none", val |-> NoVal]

\* what a promise can reject with and a throw can throw: an Error object,
\* with its property logged, or the values undefined and true
ErrorValue(l) == [t |-> "error", logged |-> l]
UndefinedValue == [t |-> "undefined", logged |-> "undefined"]
TrueValue == [t |-> "true", logged |-> "undefined"]
NoThrown == [t |-> "none", logged |-> "undefined"]

\* the errors item.fetch() rejects with: an Error, or an Error that was
\* logged before and carries logged = true
FetchErrors == {ErrorValue("undefined"), ErrorValue("true")}

\* err.logged
Logged(err) == IF err.logged = "true" THEN TrueValue ELSE UndefinedValue

\* an invocation that has not been made yet
IdleCall ==
    [op |-> "none", item |-> [kind |-> "", name |-> ""], branch |-> "none",
     user |-> "", options |-> <<>>, miss |-> FALSE,
     hash |-> <<>>, pc |-> "idle", idTmp |-> 0,
     cached |-> [found |-> FALSE, val |-> NoVal], fetched |-> NoVal,
     err |-> NoThrown, thrown |-> NoThrown,
     ret |-> NoResult]

\* the resource cache of a community that no method has been called on
CacheIdle ==
    /\ submissionTTL = TTLSecs(MaxTTL)
    /\ commentTTL = TTLSecs(MaxTTL)
    /\ authorTTL = TTLSecs(MaxTTL)
    /\ cache = <<>>
    /\ stats = [c \in Categories |-> EmptyStats]
    /\ now = 0
    /\ remote = 0
    /\ calls = [i \in 1..MaxCalls |-> IdleCall]
    /\ started = 0
    /\ obs = [i \in 1..MaxCalls |-> NoObs]

(***************************************************************************)
(* The backing store (cache-manager over an in-memory LRU store)           *)
(***************************************************************************)
Has(f, k) == k \in DOMAIN f

Put(f, k, v) == [x \in DOMAIN f \cup {k} |-> IF x = k THEN v ELSE f[x]]

Drop(f, k) == [x \in DOMAIN f \ {k} |-> f[x]]

\* an entry is stale once more than its ttl has passed; ttl 0 never expires
IsStale(e, t) == e.ttl # 0 /\ t - e.setAt > e.ttl

\* cache.get(key): found and the value; a stale entry is undefined
CacheGet(store, k, t) ==
    IF Has(store, k) /\ ~IsStale(store[k], t)
    THEN [found |-> TRUE, val |-> store[k].val]
    ELSE [found |-> FALSE, val |-> NoVal]

\* the store after cache.get(key): a stale entry is dropped by the lookup
CacheAfterGet(store, k, t) ==
    IF Has(store, k) /\ IsStale(store[k], t) THEN Drop(store, k) ELSE store

\* cache.set(key, value, {ttl}) replaces whatever the key held
CacheSet(store, k, v, ttl, t) == Put(store, k, [val |-> v, setAt |-> t, ttl |-> ttl])

\* store.prune(): every stale entry is dropped
CachePrune(store, t) ==
    [k \in {x \in DOMAIN store : ~IsStale(store[x], t)} |-> store[k]]

(***************************************************************************)
(* SubredditResources.getActivity, lines 216-257                           *)
(***************************************************************************)
\* asSubmission(item): the item is a submission
asSubmission(item) == item.kind = "submission"

\* lines 219 and 234: the branch getActivity takes for an item
ActivityBranch(item, subTTL, comTTL) ==
    IF subTTL.enabled /\ asSubmission(item) THEN "submission"
    ELSE IF comTTL.enabled THEN "comment"
    ELSE "none"

\* lines 220 and 235: the cache key of a branch
ActivityHash(branch, item) ==
    IF branch = "submission" THEN <<"sub", item.name>> ELSE <<"comm", item.name>>

\* each branch stores under the other category's ttl
ActivityTTLSwapped(branch, subTTL, comTTL) ==
    IF branch = "submission" THEN comTTL.secs ELSE subTTL.secs

\* the entry is stored without its category's ttl, that is for ever
ActivityTTLForever(branch, subTTL, comTTL) == 0

\* lines 232 and 247: the ttl an entry of a branch is stored with
ActivityTTL(branch, subTTL, comTTL) ==
    IF branch = "submission" THEN subTTL.secs ELSE comTTL.secs

\* identifierRequestCount.wrap(hash, () => 0): the count, 0 when there is none
IdWrap(ids, h) == IF Has(ids, h) THEN ids[h] ELSE 0

\* item.fetch(): the platform's current copy of the activity
Fetch(item) == [name |-> item.name, ver |-> remote]

\* what the step of invocation i did, added to what it had done before
Observe(i, before, reads, writes, fetches) ==
    [req |-> [c \in Categories |->
                before.req[c] + stats'[c].requests - stats[c].requests],
     miss |-> [c \in Categories |-> before.miss[c] + stats'[c].miss - stats[c].miss],
     stamps |-> [c \in Categories |->
                before.stamps[c] + Len(stats'[c].requestTimestamps)
                                 - Len(stats[c].requestTimestamps)],
     ids |-> before.ids + (IF \E c \in Categories :
                                stats'[c].identifierRequestCount
                                    # stats[c].identifierRequestCount
                           THEN 1 ELSE 0),
     reads |-> before.reads + reads,
     writes |-> before.writes \o writes,
     fetches |-> before.fetches + fetches]

NewCall(item, branch) ==
    [op |-> "getActivity", item |-> item, branch |-> branch,
     user |-> "", options |-> <<>>, miss |-> FALSE,
     hash |-> ActivityHash(branch, item), pc |-> "idWrap", idTmp |-> 0,
     cached |-> [found |-> FALSE, val |-> NoVal], fetched |-> NoVal,
     err |-> NoThrown, thrown |-> NoThrown,
     ret |-> NoResult]

\* getActivity is called: lines 216-221 up to the await of wrap, or, with the
\* item's branch disabled, line 251 up to the await of item.fetch()
GetActivityCall(item) ==
    /\ started < MaxCalls
    /\ LET i == started + 1
           branch == ActivityBranch(item, submissionTTL, commentTTL)
           c == NewCall(item, branch)
           ids == stats[branch].identifierRequestCount
       IN  IF branch = "none"
           THEN /\ calls' = [calls EXCEPT ![i] = [c EXCEPT !.pc = "fetchOnly",
                                                           !.fetched = Fetch(item)]]
                /\ stats' = stats
                /\ obs' = [obs EXCEPT ![i] = Observe(i, NoObs, 0, <<>>, 1)]
           ELSE /\ calls' = [calls EXCEPT ![i] = [c EXCEPT !.idTmp = IdWrap(ids, c.hash)]]
                /\ stats' = [stats EXCEPT ![branch].identifierRequestCount =
                                              Put(ids, c.hash, IdWrap(ids, c.hash))]
                /\ obs' = [obs EXCEPT ![i] = Observe(i, NoObs, 0, <<>>, 0)]
    /\ started' = started + 1
    /\ UNCHANGED <<rsVars, itemVars, mgrVars, cfgVars, submissionTTL, commentTTL, authorTTL, cache, now, remote>>

\* lines 221 and 236: wrap has resolved, identifierRequestCount.set(hash, n + 1)
GetActivityIdSet(i) ==
    /\ calls[i].op = "getActivity" /\ calls[i].pc = "idWrap"
    /\ LET c == calls[i]
       IN  /\ stats' = [stats EXCEPT ![c.branch].identifierRequestCount =
                                        Put(@, c.hash, c.idTmp + 1)]
           /\ calls' = [calls EXCEPT ![i].pc = "idSet"]
           /\ obs' = [obs EXCEPT ![i] = Observe(i, @, 0, <<>>, 0)]
    /\ UNCHANGED <<rsVars, itemVars, mgrVars, cfgVars, started, submissionTTL, commentTTL, authorTTL, cache, now, remote>>

\* lines 222-224 and 237-239: the request is counted and cache.get(hash) is made
GetActivityCount(i) ==
    /\ calls[i].op = "getActivity" /\ calls[i].pc = "idSet"
    /\ LET c == calls[i]
       IN  /\ stats' = [stats EXCEPT
                            ![c.branch].requestTimestamps = Append(@, now),
                            ![c.branch].requests = @ + 1]
           /\ calls' = [calls EXCEPT ![i].pc = "got",
                                     ![i].cached = CacheGet(cache, c.hash, now)]
           /\ cache' = CacheAfterGet(cache, c.hash, now)
           /\ obs' = [obs EXCEPT ![i] = Observe(i, @, 1, <<>>, 0)]
    /\ UNCHANGED <<rsVars, itemVars, mgrVars, cfgVars, started, submissionTTL, commentTTL, authorTTL, now, remote>>

\* lines 225-228 and 240-243: a hit returns the cached value
GetActivityHit(i) ==
    /\ calls[i].op = "getActivity" /\ calls[i].pc = "got"
    /\ calls[i].cached.found
    /\ calls' = [calls EXCEPT ![i].pc = "done",
                              ![i].ret = [kind |-> "value", val |-> calls[i].cached.val]]
    /\ stats' = stats
    /\ obs' = [obs EXCEPT ![i] = Observe(i, @, 0, <<>>, 0)]
    /\ UNCHANGED <<rsVars, itemVars, mgrVars, cfgVars, started, submissionTTL, commentTTL, authorTTL, cache, now, remote>>

\* lines 230 and 245: on a miss item.fetch() is awaited
GetActivityFetch(i) ==
    /\ calls[i].op = "getActivity" /\ calls[i].pc = "got"
    /\ ~calls[i].cached.found
    /\ calls' = [calls EXCEPT ![i].pc = "fetching",
                              ![i].fetched = Fetch(calls[i].item)]
    /\ stats' = stats
    /\ obs' = [obs EXCEPT ![i] = Observe(i, @, 0, <<>>, 1)]
    /\ UNCHANGED <<rsVars, itemVars, mgrVars, cfgVars, started, submissionTTL, commentTTL, authorTTL, cache, now, remote>>

\* the fetched value is stored only if the key is still absent
GetActivityStoreIfAbsent(i) ==
    /\ calls[i].op = "getActivity" /\ calls[i].pc = "fetching"
    /\ LET c == calls[i]
           ttl == ActivityTTL(c.branch, submissionTTL, commentTTL)
       IN  /\ stats' = [stats EXCEPT ![c.branch].miss = @ + 1]
           /\ cache' = IF Has(cache, c.hash) THEN cache
                        ELSE CacheSet(cache, c.hash, c.fetched, ttl, now)
           /\ calls' = [calls EXCEPT ![i].pc = "stored"]
           /\ obs' = [obs EXCEPT ![i] =
                         Observe(i, @, 0, <<[key |-> c.hash, entry |-> cache'[c.hash]]>>, 0)]
    /\ UNCHANGED <<rsVars, itemVars, mgrVars, cfgVars, started, submissionTTL, commentTTL, authorTTL, now, remote>>

\* lines 231-232 and 246-247: the fetch resolved, the miss is counted and
\* cache.set(hash, fetched, {ttl}) is made
GetActivityStore(i) ==
    /\ calls[i].op = "getActivity" /\ calls[i].pc = "fetching"
    /\ LET c == calls[i]
           ttl == ActivityTTL(c.branch, submissionTTL, commentTTL)
       IN  /\ stats' = [stats EXCEPT ![c.branch].miss = @ + 1]
           /\ cache' = CacheSet(cache, c.hash, c.fetched, ttl, now)
           /\ calls' = [calls EXCEPT ![i].pc = "stored"]
           /\ obs' = [obs EXCEPT ![i] =
                         Observe(i, @, 0, <<[key |-> c.hash, entry |-> cache'[c.hash]]>>, 0)]
    /\ UNCHANGED <<rsVars, itemVars, mgrVars, cfgVars, started, submissionTTL, commentTTL, authorTTL, now, remote>>

\* lines 233 and 248: the fetched value is returned
GetActivityReturn(i) ==
    /\ calls[i].op = "getActivity" /\ calls[i].pc = "stored"
    /\ calls' = [calls EXCEPT ![i].pc = "done",
                              ![i].ret = [kind |-> "value", val |-> calls[i].fetched]]
    /\ stats' = stats
    /\ obs' = [obs EXCEPT ![i] = Observe(i, @, 0, <<>>, 0)]
    /\ UNCHANGED <<rsVars, itemVars, mgrVars, cfgVars, started, submissionTTL, commentTTL, authorTTL, cache, now, remote>>

\* line 251: with the branch disabled the fetched value is returned as it is
GetActivityReturnFetched(i) ==
    /\ calls[i].op = "getActivity" /\ calls[i].pc = "fetchOnly"
    /\ calls' = [calls EXCEPT ![i].pc = "done",
                              ![i].ret = [kind |-> "value", val |-> calls[i].fetched]]
    /\ stats' = stats
    /\ obs' = [obs EXCEPT ![i] = Observe(i, @, 0, <<>>, 0)]
    /\ UNCHANGED <<rsVars, itemVars, mgrVars, cfgVars, started, submissionTTL, commentTTL, authorTTL, cache, now, remote>>

\* line 255: throw err.logged
Thrown(err) == Logged(err)

\* lines 253-256: item.fetch() rejected with err; the error is logged and
\* err.logged is thrown
GetActivityFetchFails(i) ==
    /\ calls[i].op = "getActivity" /\ calls[i].pc \in {"fetching", "fetchOnly"}
    /\ \E err \in FetchErrors :
          calls' = [calls EXCEPT ![i].pc = "done",
                                 ![i].err = err,
                                 ![i].thrown = Thrown(err),
                                 ![i].ret = [kind |-> "throw", val |-> NoVal]]
    /\ stats' = stats
    /\ obs' = [obs EXCEPT ![i] = Observe(i, @, 0, <<>>, 0)]
    /\ UNCHANGED <<rsVars, itemVars, mgrVars, cfgVars, started, submissionTTL, commentTTL, authorTTL, cache, now, remote>>

(***************************************************************************)
(* The environment: the clock, the platform, the prune timer               *)
(***************************************************************************)
Tick ==
    /\ now < MaxTime
    /\ now' = now + 1
    /\ UNCHANGED <<rsVars, itemVars, mgrVars, cfgVars, started, submissionTTL, commentTTL, authorTTL, cache, stats, remote, calls, obs>>

\* the activity is edited on the platform
RemoteEdit ==
    /\ remote < MaxVersion
    /\ remote' = remote + 1
    /\ UNCHANGED <<rsVars, itemVars, mgrVars, cfgVars, started, submissionTTL, commentTTL, authorTTL, cache, stats, now, calls, obs>>

\* lines 618-620: the timer of the shared store fires, store.prune()
Prune ==
    /\ cache' = CachePrune(cache, now)
    /\ cache' # cache
    /\ UNCHANGED <<rsVars, itemVars, mgrVars, cfgVars, started, submissionTTL, commentTTL, authorTTL, stats, now, remote, calls, obs>>

\* a resource cache as constructed (lines 104-125), its submission and
\* comment TTL taken from settings
ActivityInit(settings) ==
    /\ submissionTTL \in settings
    /\ commentTTL \in settings
    /\ authorTTL = TTLFalse
    /\ cache = <<>>
    /\ stats = [c \in Categories |-> EmptyStats]
    /\ now = 0
    /\ remote = 0
    /\ calls = [i \in 1..MaxCalls |-> IdleCall]
    /\ started = 0
    /\ obs = [i \in 1..MaxCalls |-> NoObs]

\* no invocation is in flight
Quiet == \A i \in 1..MaxCalls : calls[i].pc \in {"idle", "done"}

\* getActivity is called while no other invocation is in flight
GetActivityRequest(item) == Quiet /\ GetActivityCall(item)

\* invocations of getActivity interleaved in every way, at one instant
ActivityNext ==
    \/ \E item \in Items : GetActivityCall(item)
    \/ \E i \in 1..MaxCalls : GetActivityIdSet(i)
    \/ \E i \in 1..MaxCalls : GetActivityCount(i)
    \/ \E i \in 1..MaxCalls : GetActivityHit(i)
    \/ \E i \in 1..MaxCalls : GetActivityFetch(i)
    \/ \E i \in 1..MaxCalls : GetActivityStore(i)
    \/ \E i \in 1..MaxCalls : GetActivityReturn(i)
    \/ \E i \in 1..MaxCalls : GetActivityReturnFetched(i)
    \/ \E i \in 1..MaxCalls : GetActivityFetchFails(i)
    \/ RemoteEdit

\* invocations of getActivity made one after the other while the clock runs
\* and the prune timer fires
ExpiryNext ==
    \/ \E item \in Items : GetActivityRequest(item)
    \/ \E i \in 1..MaxCalls : GetActivityIdSet(i)
    \/ \E i \in 1..MaxCalls : GetActivityCount(i)
    \/ \E i \in 1..MaxCalls : GetActivityHit(i)
    \/ \E i \in 1..MaxCalls : GetActivityFetch(i)
    \/ \E i \in 1..MaxCalls : GetActivityStore(i)
    \/ \E i \in 1..MaxCalls : GetActivityReturn(i)
    \/ \E i \in 1..MaxCalls : GetActivityReturnFetched(i)
    \/ \E i \in 1..MaxCalls : GetActivityFetchFails(i)
    \/ Tick
    \/ RemoteEdit
    \/ Prune

RuleSetIdle ==
    /\ condition = "AND"
    /\ rules = <<>>
    /\ existingResults = <<>>
    /\ results = <<>>
    /\ runOne = FALSE
    /\ rsIdx = 0
    /\ rsPc = "idle"
    /\ rsCalls = <<>>
    /\ rsRet = NoRet

(***************************************************************************)
(* SubredditResources.getAuthorActivities, lines 259-292                   *)
(***************************************************************************)
\* line 65: declared and assigned nowhere in the class
useSubredditAuthorCache == FALSE

\* an options object: its own keys, in insertion order, with their values.
\* Two of them differ in the order of the keys only, the others in the type,
\* in the value of an option, or in the keys they have.
OptionObjects ==
    {<<<<"type", "comment">>, <<"window", "5">>>>,
     <<<<"window", "5">>, <<"type", "comment">>>>,
     <<<<"type", "submission">>, <<"window", "5">>>>,
     <<<<"type", "comment">>, <<"window", "10">>>>,
     <<<<"window", "5">>>>}

\* the queries made: every options object for one author, and one of them
\* for another author
AuthorQueries ==
    ({"alice"} \X OptionObjects) \cup {<<"bob", <<<<"type", "comment">>, <<"window", "5">>>>>>}

\* options[k], "undefined" when the object has no such key
Prop(o, k) ==
    IF \E n \in 1..Len(o) : o[n][1] = k
    THEN o[CHOOSE n \in 1..Len(o) : o[n][1] = k][2]
    ELSE "undefined"

\* the options are hashed as written, key order included
objectHashOrdered(o) == o

\* objectHash.sha1(o): the digest of the object's key/value pairs whatever
\* the order of the keys
objectHash(o) == {o[n] : n \in 1..Len(o)}

\* lines 262-265: the object that is hashed
AuthorHashObj(options) ==
    IF useSubredditAuthorCache
    THEN options \o <<<<"subreddit", "this.subreddit">>>>
    ELSE options

\* the key is built from the options as written
AuthorActivitiesHashAsWritten(userName, options) ==
    <<"authorActivities", userName,
      IF Prop(options, "type") = "undefined" THEN "overview" ELSE Prop(options, "type"),
      objectHashOrdered(AuthorHashObj(options))>>

\* line 266: authorActivities-{userName}-{options.type || 'overview'}-{sha1}
AuthorActivitiesHash(userName, options) ==
    <<"authorActivities", userName,
      IF Prop(options, "type") = "undefined" THEN "overview" ELSE Prop(options, "type"),
      objectHash(AuthorHashObj(options))>>

\* getAuthorActivities(user, options) of SnoowrapUtils: the platform's listing
Listing(userName) == [name |-> userName, ver |-> remote]

NewAuthorCall(userName, options) ==
    [IdleCall EXCEPT !.op = "getAuthorActivities", !.user = userName,
                     !.options = options, !.branch = "author"]

\* getAuthorActivities is called, no other invocation being in flight: lines
\* 260-269 up to the await of wrap, or, with authorTTL false, lines 287-291 up
\* to the await of the listing
GetAuthorActivitiesCall(userName, options) ==
    /\ Quiet
    /\ started < MaxCalls
    /\ LET i == started + 1
           c == NewAuthorCall(userName, options)
           ids == stats["author"].identifierRequestCount
       IN  IF authorTTL.enabled
           THEN /\ calls' = [calls EXCEPT ![i] =
                               [c EXCEPT !.hash = AuthorActivitiesHash(userName, options),
                                         !.idTmp = IdWrap(ids, userName),
                                         !.pc = "idWrap"]]
                /\ stats' = [stats EXCEPT
                                ![c.branch].requests = @ + 1,
                                ![c.branch].identifierRequestCount =
                                    Put(ids, userName, IdWrap(ids, userName))]
                /\ obs' = [obs EXCEPT ![i] = Observe(i, NoObs, 0, <<>>, 0)]
           ELSE /\ calls' = [calls EXCEPT ![i] = [c EXCEPT !.pc = "listOnly",
                                                           !.branch = "none",
                                                           !.fetched = Listing(userName)]]
                /\ stats' = stats
                /\ obs' = [obs EXCEPT ![i] = Observe(i, NoObs, 0, <<>>, 1)]
    /\ started' = started + 1
    /\ UNCHANGED <<rsVars, itemVars, mgrVars, cfgVars, submissionTTL, commentTTL, authorTTL, cache, now, remote>>

\* line 269: wrap has resolved, identifierRequestCount.set(userName, n + 1)
GetAuthorActivitiesIdSet(i) ==
    /\ calls[i].op = "getAuthorActivities" /\ calls[i].pc = "idWrap"
    /\ LET c == calls[i]
       IN  /\ stats' = [stats EXCEPT ![c.branch].identifierRequestCount =
                                        Put(@, c.user, c.idTmp + 1)]
           /\ calls' = [calls EXCEPT ![i].pc = "idSet"]
           /\ obs' = [obs EXCEPT ![i] = Observe(i, @, 0, <<>>, 0)]
    /\ UNCHANGED <<rsVars, itemVars, mgrVars, cfgVars, started, submissionTTL, commentTTL, authorTTL, cache, now, remote>>

\* lines 270-279: the timestamp is pushed and cache.wrap(hash, producer, {ttl})
\* looks the key up; when it is absent the producer sets miss and awaits the
\* listing
GetAuthorActivitiesWrap(i) ==
    /\ calls[i].op = "getAuthorActivities" /\ calls[i].pc = "idSet"
    /\ LET c == calls[i]
           got == CacheGet(cache, c.hash, now)
       IN  /\ stats' = [stats EXCEPT ![c.branch].requestTimestamps = Append(@, now)]
           /\ cache' = CacheAfterGet(cache, c.hash, now)
           /\ IF got.found
              THEN /\ calls' = [calls EXCEPT ![i].pc = "wrapped", ![i].cached = got]
                   /\ obs' = [obs EXCEPT ![i] = Observe(i, @, 1, <<>>, 0)]
              ELSE /\ calls' = [calls EXCEPT ![i].pc = "listing", ![i].cached = got,
                                             ![i].miss = TRUE,
                                             ![i].fetched = Listing(c.user)]
                   /\ obs' = [obs EXCEPT ![i] = Observe(i, @, 1, <<>>, 1)]
    /\ UNCHANGED <<rsVars, itemVars, mgrVars, cfgVars, started, submissionTTL, commentTTL, authorTTL, now, remote>>

\* line 279: the producer resolved and wrap stores its value under authorTTL
GetAuthorActivitiesStore(i) ==
    /\ calls[i].op = "getAuthorActivities" /\ calls[i].pc = "listing"
    /\ LET c == calls[i]
       IN  /\ cache' = CacheSet(cache, c.hash, c.fetched, authorTTL.secs, now)
           /\ calls' = [calls EXCEPT ![i].pc = "wrapped"]
           /\ stats' = stats
           /\ obs' = [obs EXCEPT ![i] =
                         Observe(i, @, 0, <<[key |-> c.hash, entry |-> cache'[c.hash]]>>, 0)]
    /\ UNCHANGED <<rsVars, itemVars, mgrVars, cfgVars, started, submissionTTL, commentTTL, authorTTL, now, remote>>

\* lines 280-285: wrap resolved; a miss is counted, the value is returned
GetAuthorActivitiesReturn(i) ==
    /\ calls[i].op = "getAuthorActivities" /\ calls[i].pc = "wrapped"
    /\ LET c == calls[i]
           cacheVal == IF c.miss THEN c.fetched ELSE c.cached.val
       IN  /\ stats' = [stats EXCEPT ![c.branch].miss = IF c.miss THEN @ + 1 ELSE @]
           /\ calls' = [calls EXCEPT ![i].pc = "done",
                                     ![i].ret = [kind |-> "value", val |-> cacheVal]]
           /\ obs' = [obs EXCEPT ![i] = Observe(i, @, 0, <<>>, 0)]
    /\ UNCHANGED <<rsVars, itemVars, mgrVars, cfgVars, started, submissionTTL, commentTTL, authorTTL, cache, now, remote>>

\* lines 287-291: with authorTTL false the listing is returned as it is
GetAuthorActivitiesReturnListed(i) ==
    /\ calls[i].op = "getAuthorActivities" /\ calls[i].pc = "listOnly"
    /\ calls' = [calls EXCEPT ![i].pc = "done",
                              ![i].ret = [kind |-> "value", val |-> calls[i].fetched]]
    /\ stats' = stats
    /\ obs' = [obs EXCEPT ![i] = Observe(i, @, 0, <<>>, 0)]
    /\ UNCHANGED <<rsVars, itemVars, mgrVars, cfgVars, started, submissionTTL, commentTTL, authorTTL, cache, now, remote>>

\* the listing rejected: nothing catches it, the call rejects with the error
GetAuthorActivitiesListingFails(i) ==
    /\ calls[i].op = "getAuthorActivities" /\ calls[i].pc \in {"listing", "listOnly"}
    /\ calls' = [calls EXCEPT ![i].pc = "done",
                              ![i].ret = [kind |-> "throw", val |-> NoVal]]
    /\ stats' = stats
    /\ obs' = [obs EXCEPT ![i] = Observe(i, @, 0, <<>>, 0)]
    /\ UNCHANGED <<rsVars, itemVars, mgrVars, cfgVars, started, submissionTTL, commentTTL, authorTTL, cache, now, remote>>

\* invocations of getAuthorActivities made one after the other while the
\* clock runs and the prune timer fires
AuthorNext ==
    \/ \E q \in AuthorQueries : GetAuthorActivitiesCall(q[1], q[2])
    \/ \E i \in 1..MaxCalls : GetAuthorActivitiesIdSet(i)
    \/ \E i \in 1..MaxCalls : GetAuthorActivitiesWrap(i)
    \/ \E i \in 1..MaxCalls : GetAuthorActivitiesStore(i)
    \/ \E i \in 1..MaxCalls : GetAuthorActivitiesReturn(i)
    \/ \E i \in 1..MaxCalls : GetAuthorActivitiesReturnListed(i)
    \/ \E i \in 1..MaxCalls : GetAuthorActivitiesListingFails(i)
    \/ Tick
    \/ Prune

(***************************************************************************)
(* BotResourcesManager, lines 579-697, and the constructor of              *)
(* SubredditResources, lines 87-146                                        *)
(***************************************************************************)
Communities == {"subA", "subB"}

\* the settings of the six TTLs (lines 594-599)
TTLNames == {"authorTTL", "userNotesTTL", "wikiTTL", "commentTTL", "submissionTTL",
             "filterCriteriaTTL"}

\* the TTLs a SubredditResources keeps and its constructor looks at (line 135)
ResourceTTLNames == {"wikiTTL", "authorTTL", "submissionTTL", "commentTTL",
                     "filterCriteriaTTL"}

\* the TTLs the constructor of the manager looks at (line 615)
ManagerTTLNames == {"wikiTTL", "authorTTL", "userNotesTTL"}

\* a TTL as configured: false, true or a number of seconds
CfgFalse == [kind |-> "false", n |-> 0]
CfgTrue == [kind |-> "true", n |-> 0]
CfgNum(k) == [kind |-> "number", n |-> k]

\* lines 110-114: x === true ? 0 : x
NormTTL(x) ==
    IF x.kind = "true" THEN TTLSecs(0)
    ELSE IF x.kind = "false" THEN TTLFalse
    ELSE TTLSecs(x.n)

\* a record of the six TTLs
TTLConfig(author, userNotes, wiki, comment, submission, filterCriteria) ==
    [k \in TTLNames |->
        CASE k = "authorTTL" -> author
          [] k = "userNotesTTL" -> userNotes
          [] k = "wikiTTL" -> wiki
          [] k = "commentTTL" -> comment
          [] k = "submissionTTL" -> submission
          [] k = "filterCriteriaTTL" -> filterCriteria]

\* the TTL defaults of a bot: all equal; submissions the shortest; comments
\* the shortest; none finite and positive
BotTTLs ==
    {TTLConfig(CfgNum(MaxTTL), CfgNum(MaxTTL), CfgNum(MaxTTL), CfgNum(MaxTTL),
               CfgNum(MaxTTL), CfgNum(MaxTTL)),
     TTLConfig(CfgNum(MaxTTL + 1), CfgNum(MaxTTL + 1), CfgNum(MaxTTL + 1),
               CfgNum(MaxTTL + 1), CfgNum(MaxTTL), CfgNum(MaxTTL + 1)),
     TTLConfig(CfgFalse, CfgTrue, CfgNum(0), CfgNum(MaxTTL), CfgFalse, CfgFalse),
     TTLConfig(CfgFalse, CfgTrue, CfgNum(0), CfgFalse, CfgTrue, CfgNum(0))}

\* the caching of a bot: caching.provider.prefix, as its name parts, is
\* absent with the first TTL defaults and "bot" with the others
BotCachings ==
    {[ttl |-> t, prefix |-> IF t["submissionTTL"] = t["authorTTL"] THEN <<>> ELSE <<"bot">>] :
        t \in BotTTLs}

\* buildCachePrefix(parts): the non-empty name parts, joined
buildCachePrefix(parts) == SelectSeq(parts, LAMBDA x : x # "")

\* prefix.replace('SHARED', '')
ReplaceShared(prefix) == [n \in 1..Len(prefix) |->
                             IF prefix[n] = "SHARED" THEN "" ELSE prefix[n]]

\* buildCacheOptionsFromProvider(provider): the options of the provider
buildCacheOptionsFromProvider(provider) == provider

\* the caching settings of a community (the caching of a
\* SubredditResourceConfig): absent; present and empty; TTLs of its own; no
\* TTL finite and positive; a provider with a prefix of its own
NoCaching == [defined |-> FALSE, hasProvider |-> FALSE,
              provider |-> [store |-> "memory", prefix |-> <<>>], rest |-> <<>>]

OwnCaching(rest) == [NoCaching EXCEPT !.defined = TRUE, !.rest = rest]

CachingConfigs ==
    {NoCaching,
     OwnCaching(<<>>),
     OwnCaching([k \in {"submissionTTL"} |-> CfgNum(MaxTTL)]),
     OwnCaching([k \in ResourceTTLNames |->
                    IF k = "commentTTL" THEN CfgTrue
                    ELSE IF k = "wikiTTL" THEN CfgNum(0) ELSE CfgFalse]),
     [OwnCaching(<<>>) EXCEPT !.hasProvider = TRUE, !.provider.prefix = <<"own">>]}

DEFAULT_FOOTER == "DEFAULT_FOOTER"

\* the footer of a SubredditResourceConfig: absent, false, or a text
Footers == {"undefined", "false", "custom footer"}

\* the configurations set is called with: every caching without a footer,
\* and every footer without caching and with TTLs of its own
SubredditResourceConfigs ==
    [caching : CachingConfigs, footer : {"undefined"}]
        \cup [caching : {NoCaching, OwnCaching([k \in {"submissionTTL"} |-> CfgNum(MaxTTL)])},
              footer : Footers]

\* objectHash.sha1 of an object with a provider and TTLs; what is hashed in
\* line 607 (the caching of the bot) and in line 659 (a cacheConfig) are
\* objects of different shapes
Sha1(shape, provider, ttl) == [kind |-> shape, provider |-> provider, ttl |-> ttl]

\* line 638: the hash 'default'
DefaultHash == Sha1("default", NoCaching.provider, [k \in TTLNames |-> CfgFalse])

\* lines 606-609 of the manager's constructor
DefaultProvider == [store |-> "memory",
                    prefix |-> buildCachePrefix(botCaching.prefix \o <<"SHARED">>)]
ttlDefaults == botCaching.ttl
cacheHash == Sha1("caching", DefaultProvider, botCaching.ttl)
cacheType == DefaultProvider.store

\* Math.min(...xs.filter(x => typeof x === 'number' && x !== 0)) of TTLs as
\* configured: Infinity when none is left
MinOfConfigured(ttl, names) ==
    LET xs == {ttl[k].n : k \in {m \in names : ttl[m].kind = "number" /\ ttl[m].n # 0}}
    IN  IF xs = {} THEN [inf |-> TRUE, secs |-> 0]
        ELSE [inf |-> FALSE, secs |-> CHOOSE x \in xs : \A y \in xs : x <= y]

\* the same of the TTLs a SubredditResources holds (line 135)
MinOfHeld(ttl, names) ==
    LET xs == {ttl[k].secs : k \in {m \in names : ttl[m].enabled /\ ttl[m].secs # 0}}
    IN  IF xs = {} THEN [inf |-> TRUE, secs |-> 0]
        ELSE [inf |-> FALSE, secs |-> CHOOSE x \in xs : \A y \in xs : x <= y]

\* min > 0
Positive(min) == min.inf \/ min.secs > 0

\* setInterval(f, min * 1000 * 2) at time t: the period, when it is next due
\* and how often it fired; an infinite delay is taken as the shortest one
NewTimer(owner, min, t) ==
    [owner |-> owner,
     period |-> [inf |-> min.inf, secs |-> min.secs * 2],
     due |-> IF min.inf THEN t ELSE t + min.secs * 2,
     fires |-> 0]

\* cacheStats(): no request and no miss counted
NoUse == [requests |-> 0, miss |-> 0]

NoSet == [subName |-> "", initOptions |-> [caching |-> NoCaching, footer |-> "undefined"],
          ret |-> 0]

\* lines 591-628: the manager as constructed from the caching of a bot, with
\* the shared store and, when line 616 holds, its prune timer
ManagerInit ==
    /\ botCaching \in BotCachings
    /\ resources = <<>>
    /\ instances = <<>>
    /\ stores = <<<<>>>>
    /\ timers = IF cacheType = "memory"
                   /\ Positive(MinOfConfigured(ttlDefaults, ManagerTTLNames))
                THEN <<NewTimer(0, MinOfConfigured(ttlDefaults, ManagerTTLNames), 0)>>
                ELSE <<>>
    /\ sets = 0
    /\ lastSet = NoSet

\* lines 630-635: get(subName), 0 for undefined
get(subName) == IF Has(resources, subName) THEN resources[subName] ELSE 0

\* lines 652-658: the cacheConfig of a community
CacheConfigOf(caching) ==
    [provider |-> buildCacheOptionsFromProvider(
                      IF caching.hasProvider THEN caching.provider ELSE DefaultProvider),
     ttl |-> [k \in TTLNames |->
                 IF k \in DOMAIN caching.rest THEN caching.rest[k] ELSE ttlDefaults[k]]]

\* lines 638, 659: the hash set computes
SetHash(caching) ==
    IF caching.defined
    THEN Sha1("cacheConfig", CacheConfigOf(caching).provider, CacheConfigOf(caching).ttl)
    ELSE DefaultHash

\* lines 650, 661: a store of its own is created
CreatesStore(caching) == caching.defined /\ SetHash(caching) # cacheHash

\* the store of its own is left under the shared prefix
SubPrefixShared(subName, trueProvider) == trueProvider.prefix

\* line 664: the prefix of a store of its own
SubPrefix(subName, trueProvider) ==
    IF trueProvider.prefix = DefaultProvider.prefix
    THEN buildCachePrefix(ReplaceShared(trueProvider.prefix) \o <<subName>>)
    ELSE trueProvider.prefix

\* lines 641-674: opts, cache being the number of the store; newStore is the
\* store createCacheManager has made in line 667
SetOpts(subName, initOptions, newStore) ==
    IF CreatesStore(initOptions.caching)
    THEN [cache |-> newStore,
          cacheType |-> CacheConfigOf(initOptions.caching).provider.store,
          cacheSettingsHash |-> SetHash(initOptions.caching),
          prefix |-> SubPrefix(subName, CacheConfigOf(initOptions.caching).provider),
          footer |-> initOptions.footer,
          ttl |-> CacheConfigOf(initOptions.caching).ttl]
    ELSE [cache |-> 1,
          cacheType |-> cacheType,
          cacheSettingsHash |-> DefaultHash,
          prefix |-> DefaultProvider.prefix,
          footer |-> initOptions.footer,
          ttl |-> ttlDefaults]

\* lines 87-126 of the constructor of SubredditResources: the fields of the
\* new object; footer keeps its initial value (line 74)
NewResource(name, opts) ==
    [name |-> name,
     cache |-> opts.cache,
     cacheType |-> opts.cacheType,
     cacheSettingsHash |-> opts.cacheSettingsHash,
     prefix |-> opts.prefix,
     footer |-> DEFAULT_FOOTER,
     ttl |-> [k \in ResourceTTLNames |-> NormTTL(opts.ttl[k])],
     stats |-> NoUse]

\* lines 134-145: the timers after the constructor has made resource id
TimersAfterNew(ts, id, r, t) ==
    IF r.cacheType = "memory" /\ r.cacheSettingsHash # DefaultHash
       /\ Positive(MinOfHeld(r.ttl, ResourceTTLNames))
    THEN Append(ts, NewTimer(id, MinOfHeld(r.ttl, ResourceTTLNames), t))
    ELSE ts

\* lines 688-690: the footer of a resource that is kept
FooterKept(optsFooter, footer) ==
    IF optsFooter # footer
    THEN (IF optsFooter \in {"undefined", "false"} THEN DEFAULT_FOOTER ELSE optsFooter)
    ELSE footer

\* lines 637-696: set(subName, initOptions)
ManagerSet(subName, initOptions) ==
    /\ sets < MaxSets
    /\ LET hash == SetHash(initOptions.caching)
           made == CreatesStore(initOptions.caching)
           stores1 == IF made THEN Append(stores, <<>>) ELSE stores
           opts == SetOpts(subName, initOptions, Len(stores) + 1)
           res == get(subName)
       IN  IF res = 0 \/ instances[res].cacheSettingsHash # hash
           THEN LET id == Len(instances) + 1
                    resource == NewResource(subName, opts)
                IN  /\ stores' = IF res # 0
                                 THEN [stores1 EXCEPT ![instances[res].cache] = <<>>]
                                 ELSE stores1
                    /\ instances' = Append(instances, resource)
                    /\ timers' = TimersAfterNew(timers, id, resource, now)
                    /\ resources' = Put(resources, subName, id)
                    /\ lastSet' = [subName |-> subName, initOptions |-> initOptions,
                                   ret |-> id]
           ELSE /\ stores' = stores1
                /\ instances' = [instances EXCEPT
                                    ![res].footer = FooterKept(opts.footer, @),
                                    ![res].stats = NoUse]
                /\ timers' = timers
                /\ resources' = resources
                /\ lastSet' = [subName |-> subName, initOptions |-> initOptions,
                               ret |-> res]
    /\ sets' = sets + 1
    /\ UNCHANGED <<rsVars, itemVars, cacheVars, cfgVars, botCaching>>

\* the resource of a community memoizes a submission: a getActivity that
\* misses, lines 219-233, run from call to return
ResourceMemoizes(subName) ==
    /\ get(subName) # 0
    /\ LET r == instances[get(subName)]
           hash == ActivityHash("submission", CHOOSE i \in Items : asSubmission(i))
       IN  /\ r.ttl["submissionTTL"].enabled
           /\ r.stats.requests < MaxUses
           /\ instances' = [instances EXCEPT
                               ![get(subName)].stats.requests = @ + 1,
                               ![get(subName)].stats.miss = @ + 1]
           /\ stores' = [stores EXCEPT ![r.cache] =
                            CacheSet(@, hash, [name |-> subName, ver |-> 0],
                                     ActivityTTL("submission", r.ttl["submissionTTL"],
                                                 r.ttl["commentTTL"]), now)]
    /\ UNCHANGED <<rsVars, itemVars, cacheVars, cfgVars, botCaching, resources, timers, sets, lastSet>>

\* lines 618-625: the interval of the manager is due,
\* this.defaultCache?.store.prune()
ManagerTimerFires(t) ==
    /\ t \in DOMAIN timers
    /\ timers[t].owner = 0
    /\ timers[t].due <= now
    /\ timers[t].fires < MaxFires
    /\ stores' = [stores EXCEPT ![1] = CachePrune(@, now)]
    /\ timers' = [timers EXCEPT ![t].fires = @ + 1,
                                ![t].due = IF timers[t].period.inf THEN now
                                           ELSE @ + timers[t].period.secs]
    /\ UNCHANGED <<rsVars, itemVars, cacheVars, cfgVars, botCaching, resources, instances, sets, lastSet>>

\* lines 138-143: the interval of a SubredditResources is due; the object
\* has no field defaultCache, this.defaultCache?.store.prune() does nothing
ResourceTimerFires(t) ==
    /\ t \in DOMAIN timers
    /\ timers[t].owner # 0
    /\ timers[t].due <= now
    /\ timers[t].fires < MaxFires
    /\ stores' = stores
    /\ timers' = [timers EXCEPT ![t].fires = @ + 1,
                                ![t].due = IF timers[t].period.inf THEN now
                                           ELSE @ + timers[t].period.secs]
    /\ UNCHANGED <<rsVars, itemVars, cacheVars, cfgVars, botCaching, resources, instances, sets, lastSet>>

\* a manager of which nothing is used
ManagerIdle ==
    /\ botCaching = [ttl |-> TTLConfig(CfgFalse, CfgFalse, CfgFalse, CfgFalse, CfgFalse,
                                       CfgFalse),
                     prefix |-> <<>>]
    /\ resources = <<>>
    /\ instances = <<>>
    /\ stores = <<<<>>>>
    /\ timers = <<>>
    /\ sets = 0
    /\ lastSet = NoSet

\* the manager after set was called once for each community with a
\* configuration that has no caching and no footer: each community has its
\* resource cache on the shared store, and no entry is stored yet
ManagerShared ==
    /\ botCaching \in BotCachings
    /\ resources = [c \in Communities |-> IF c = "subA" THEN 1 ELSE 2]
    /\ instances = <<NewResource("subA", SetOpts("subA", NoSet.initOptions, 0)),
                     NewResource("subB", SetOpts("subB", NoSet.initOptions, 0))>>
    /\ stores = <<<<>>>>
    /\ timers = IF cacheType = "memory"
                   /\ Positive(MinOfConfigured(ttlDefaults, ManagerTTLNames))
                THEN <<NewTimer(0, MinOfConfigured(ttlDefaults, ManagerTTLNames), 0)>>
                ELSE <<>>
    /\ sets = 0
    /\ lastSet = NoSet

\* calls of set for the communities, their resources in use, the clock and
\* the timers
ManagerNext ==
    \/ \E c \in Communities, o \in SubredditResourceConfigs : ManagerSet(c, o)
    \/ \E c \in Communities : ResourceMemoizes(c)
    \/ \E t \in 1..(MaxSets + 1) : ManagerTimerFires(t)
    \/ \E t \in 1..(MaxSets + 1) : ResourceTimerFires(t)
    \/ Tick

(***************************************************************************)
(* ConfigBuilder.parseToStructured and the named rules and actions,        *)
(* src/unnamed/part_000 lines 82-217                                       *)
(***************************************************************************)
\* a name: its letters, whether they are in upper case, whether white space
\* surrounds them
Name(base, upper, pad) == [base |-> base, upper |-> upper, pad |-> pad]

NoName == Name("", FALSE, FALSE)

\* String.prototype.toLowerCase and String.prototype.trim
toLowerCase(n) == [n EXCEPT !.upper = FALSE]
trim(n) == [n EXCEPT !.pad = FALSE]

\* normalizeName(name): the name trimmed and in lower case
normalizeName(n) == toLowerCase(trim(n))

\* the members of rules and actions lists: an object with a kind (a rule or
\* an action) with or without a name, the rest of its fields being body; a
\* string; a rule set with a condition and rules
RuleObject(hasName, name, body) ==
    [t |-> "rule", hasName |-> hasName, name |-> name, body |-> body,
     condition |-> "", rules |-> <<>>]

ActionObject(hasName, name, body) ==
    [t |-> "action", hasName |-> hasName, name |-> name, body |-> body,
     condition |-> "", rules |-> <<>>]

Reference(name) ==
    [t |-> "string", hasName |-> FALSE, name |-> name, body |-> 0,
     condition |-> "", rules |-> <<>>]

RuleSetObject(cond, setRules) ==
    [t |-> "set", hasName |-> FALSE, name |-> NoName, body |-> 0,
     condition |-> cond, rules |-> setRules]

\* a check: what tells it from the others, its rules if it has the field,
\* its actions
Check(id, hasRules, checkRules, actions) ==
    [id |-> id, hasRules |-> hasRules, rules |-> checkRules, actions |-> actions]

\* a Map in insertion order
MapHas(m, k) == \E n \in 1..Len(m) : m[n].key = k
MapGet(m, k) == m[CHOOSE n \in 1..Len(m) : m[n].key = k].val
MapSet(m, k, v) ==
    IF MapHas(m, k)
    THEN [n \in 1..Len(m) |-> IF m[n].key = k THEN [key |-> k, val |-> v] ELSE m[n]]
    ELSE Append(m, [key |-> k, val |-> v])
MapValues(m) == [n \in 1..Len(m) |-> m[n].val]

NoError == [kind |-> "none", name |-> NoName]
ConflictError(kind, name) == [kind |-> kind, name |-> name]

\* const {name, ...rest} = x
WithoutName(x) == [x EXCEPT !.hasName = FALSE, !.name = NoName]

\* line 140: the key a rule is registered under
RuleKey(n) == normalizeName(n)

\* line 184: the key an action is registered under
ActionKey(n) == toLowerCase(n)

\* lines 138-152: one rule of rulesToAdd is registered in namedRules, or the
\* error is thrown; acc is [err, map]
RegisterRule(acc, rule) ==
    IF acc.err # NoError THEN acc
    ELSE IF MapHas(acc.map, RuleKey(rule.name))
    THEN IF WithoutName(MapGet(acc.map, RuleKey(rule.name))) # WithoutName(rule)
         THEN [acc EXCEPT !.err = ConflictError("rule conflict", rule.name)]
         ELSE acc
    ELSE [acc EXCEPT !.map = MapSet(acc.map, RuleKey(rule.name), rule)]

RECURSIVE RegisterRules(_, _, _)
RegisterRules(acc, rulesToAdd, i) ==
    IF i > Len(rulesToAdd) THEN acc
    ELSE RegisterRules(RegisterRule(acc, rulesToAdd[i]), rulesToAdd, i + 1)

\* lines 122-156: extractNamedRules(rules, namedRules) from member i on; the
\* rules of a nested set are extracted into a new Map whose values are then
\* registered
RECURSIVE ExtractNamedRulesFrom(_, _, _)
ExtractNamedRulesFrom(ruleList, acc, i) ==
    IF acc.err # NoError \/ i > Len(ruleList) THEN acc
    ELSE LET r == ruleList[i]
             nested == ExtractNamedRulesFrom(r.rules, [err |-> NoError, map |-> <<>>], 1)
         IN  IF r.t = "string" THEN ExtractNamedRulesFrom(ruleList, acc, i + 1)
             ELSE IF r.t = "rule"
             THEN ExtractNamedRulesFrom(ruleList,
                      IF r.hasName THEN RegisterRules(acc, <<r>>, 1) ELSE acc, i + 1)
             ELSE IF nested.err # NoError
                  THEN [acc EXCEPT !.err = nested.err]
                  ELSE ExtractNamedRulesFrom(ruleList,
                           RegisterRules(acc, MapValues(nested.map), 1), i + 1)

extractNamedRules(ruleList, namedRules) ==
    ExtractNamedRulesFrom(ruleList, [err |-> NoError, map |-> namedRules], 1)

\* lines 180-200: extractNamedActions(actions, namedActions) from member i on
RECURSIVE ExtractNamedActionsFrom(_, _, _)
ExtractNamedActionsFrom(actions, acc, i) ==
    IF acc.err # NoError \/ i > Len(actions) THEN acc
    ELSE LET a == actions[i]
         IN  IF a.t = "string" \/ ~a.hasName
             THEN ExtractNamedActionsFrom(actions, acc, i + 1)
             ELSE IF MapHas(acc.map, ActionKey(a.name))
             THEN IF WithoutName(MapGet(acc.map, ActionKey(a.name))) # WithoutName(a)
                  THEN [acc EXCEPT !.err = ConflictError("action conflict", a.name)]
                  ELSE ExtractNamedActionsFrom(actions, acc, i + 1)
             ELSE ExtractNamedActionsFrom(actions,
                      [acc EXCEPT !.map = MapSet(acc.map, ActionKey(a.name), a)], i + 1)

extractNamedActions(actions, namedActions) ==
    ExtractNamedActionsFrom(actions, [err |-> NoError, map |-> namedActions], 1)

\* the set is rebuilt from its rules alone
StrongSetNoRest(r, setRules) == RuleSetObject("", setRules)

\* lines 168-170: {rules: setRules, ...rest}
StrongSet(r, setRules) == [r EXCEPT !.rules = setRules]

\* a reference that is not found is dropped from the list
LookupRuleOrSkip(acc, r, namedRules) ==
    IF ~MapHas(namedRules, toLowerCase(r.name)) THEN acc
    ELSE [acc EXCEPT !.out = Append(acc.out, MapGet(namedRules, toLowerCase(r.name)))]

\* lines 161-166: a string among the rules; acc is [err, out]
LookupRule(acc, r, namedRules) ==
    IF ~MapHas(namedRules, toLowerCase(r.name))
    THEN [acc EXCEPT !.err = ConflictError("no named rule", r.name)]
    ELSE [acc EXCEPT !.out = Append(acc.out, MapGet(namedRules, toLowerCase(r.name)))]

\* lines 158-178: insertNamedRules(rules, namedRules) from member i on
RECURSIVE InsertNamedRulesFrom(_, _, _, _)
InsertNamedRulesFrom(ruleList, namedRules, acc, i) ==
    IF acc.err # NoError \/ i > Len(ruleList) THEN acc
    ELSE LET r == ruleList[i]
             setRules == InsertNamedRulesFrom(r.rules, namedRules,
                                              [err |-> NoError, out |-> <<>>], 1)
         IN  IF r.t = "string"
             THEN InsertNamedRulesFrom(ruleList, namedRules,
                                       LookupRule(acc, r, namedRules), i + 1)
             ELSE IF r.t = "set"
             THEN IF setRules.err # NoError
                  THEN [acc EXCEPT !.err = setRules.err]
                  ELSE InsertNamedRulesFrom(ruleList, namedRules,
                           [acc EXCEPT !.out = Append(acc.out, StrongSet(r, setRules.out))],
                           i + 1)
             ELSE InsertNamedRulesFrom(ruleList, namedRules,
                                       [acc EXCEPT !.out = Append(acc.out, r)], i + 1)

insertNamedRules(ruleList, namedRules) ==
    InsertNamedRulesFrom(ruleList, namedRules, [err |-> NoError, out |-> <<>>], 1)

\* lines 202-217: insertNamedActions(actions, namedActions) from member i on
RECURSIVE InsertNamedActionsFrom(_, _, _, _)
InsertNamedActionsFrom(actions, namedActions, acc, i) ==
    IF acc.err # NoError \/ i > Len(actions) THEN acc
    ELSE LET a == actions[i]
         IN  IF a.t = "string"
             THEN IF ~MapHas(namedActions, toLowerCase(a.name))
                  THEN [acc EXCEPT !.err = ConflictError("no named action", a.name)]
                  ELSE InsertNamedActionsFrom(actions, namedActions,
                           [acc EXCEPT !.out = Append(acc.out,
                                   MapGet(namedActions, toLowerCase(a.name)))], i + 1)
             ELSE InsertNamedActionsFrom(actions, namedActions,
                                         [acc EXCEPT !.out = Append(acc.out, a)], i + 1)

insertNamedActions(actions, namedActions) ==
    InsertNamedActionsFrom(actions, namedActions, [err |-> NoError, out |-> <<>>], 1)

\* lines 86-90: the first loop over the checks from check i on; acc is
\* [err, namedRules, namedActions]
RECURSIVE ExtractChecksFrom(_, _, _)
ExtractChecksFrom(checks, acc, i) ==
    IF acc.err # NoError \/ i > Len(checks) THEN acc
    ELSE LET c == checks[i]
             nr == extractNamedRules(IF c.hasRules THEN c.rules ELSE <<>>, acc.namedRules)
             na == extractNamedActions(c.actions, acc.namedActions)
         IN  IF nr.err # NoError THEN [acc EXCEPT !.err = nr.err]
             ELSE IF na.err # NoError THEN [acc EXCEPT !.err = na.err]
             ELSE ExtractChecksFrom(checks,
                      [acc EXCEPT !.namedRules = nr.map, !.namedActions = na.map], i + 1)

\* the check is rebuilt from its lists alone
StrongCheckOnlyLists(c, strongRules, strongActions) ==
    Check(0, TRUE, strongRules, strongActions)

\* line 97: {...c, rules: strongRules, actions: strongActions}
StrongCheck(c, strongRules, strongActions) ==
    [c EXCEPT !.hasRules = TRUE, !.rules = strongRules, !.actions = strongActions]

\* lines 92-99: the second loop over the checks from check i on; acc is
\* [err, structuredChecks]
RECURSIVE StructureChecksFrom(_, _, _, _)
StructureChecksFrom(checks, named, acc, i) ==
    IF acc.err # NoError \/ i > Len(checks) THEN acc
    ELSE LET c == checks[i]
             strongRules == insertNamedRules(IF c.hasRules THEN c.rules ELSE <<>>,
                                             named.namedRules)
             strongActions == insertNamedActions(c.actions, named.namedActions)
         IN  IF strongRules.err # NoError THEN [acc EXCEPT !.err = strongRules.err]
             ELSE IF strongActions.err # NoError THEN [acc EXCEPT !.err = strongActions.err]
             ELSE StructureChecksFrom(checks, named,
                      [acc EXCEPT !.structuredChecks =
                          Append(@, StrongCheck(c, strongRules.out, strongActions.out))],
                      i + 1)

\* lines 82-102: parseToStructured(config): the structured checks returned or
\* the error thrown
parseToStructured(checks) ==
    LET named == ExtractChecksFrom(checks,
                     [err |-> NoError, namedRules |-> <<>>, namedActions |-> <<>>], 1)
        strong == StructureChecksFrom(checks, named,
                     [err |-> NoError, structuredChecks |-> <<>>], 1)
    IN  IF named.err # NoError
        THEN [state |-> "thrown", err |-> named.err, structuredChecks |-> <<>>]
        ELSE IF strong.err # NoError
        THEN [state |-> "thrown", err |-> strong.err, structuredChecks |-> <<>>]
        ELSE [state |-> "returned", err |-> NoError,
              structuredChecks |-> strong.structuredChecks]

NotParsed == [state |-> "none", err |-> NoError, structuredChecks |-> <<>>]

\* the names in the documents: a, A, a surrounded by white space, b
NameA == Name("a", FALSE, FALSE)
NameUpperA == Name("a", TRUE, FALSE)
NamePaddedA == Name("a", FALSE, TRUE)
NameB == Name("b", FALSE, FALSE)

\* the rules and strings a rules list is written from, those a nested set is
\* written from, and the actions and strings of an actions list
RuleLeaves ==
    {RuleObject(TRUE, NameA, 1), RuleObject(TRUE, NameA, 2),
     RuleObject(TRUE, NameUpperA, 1), RuleObject(TRUE, NamePaddedA, 1),
     RuleObject(TRUE, NameB, 2), RuleObject(FALSE, NoName, 1),
     Reference(NameA), Reference(NameUpperA), Reference(NamePaddedA)}

NestedLeaves ==
    {RuleObject(TRUE, NameA, 2), RuleObject(TRUE, NamePaddedA, 1), Reference(NameUpperA)}

ActionLeaves ==
    {ActionObject(TRUE, NameA, 1), ActionObject(TRUE, NameA, 2),
     ActionObject(TRUE, NamePaddedA, 2), Reference(NameA), Reference(NamePaddedA)}

\* how many rules, actions and strings the lists of a rule list hold in all
RECURSIVE CountLeaves(_, _)
CountLeaves(ruleList, i) ==
    IF i > Len(ruleList) THEN 0
    ELSE (IF ruleList[i].t = "set" THEN CountLeaves(ruleList[i].rules, 1) ELSE 1)
         + CountLeaves(ruleList, i + 1)

RECURSIVE CountConfigLeaves(_, _)
CountConfigLeaves(checks, i) ==
    IF i > Len(checks) THEN 0
    ELSE CountLeaves(checks[i].rules, 1) + Len(checks[i].actions)
         + CountConfigLeaves(checks, i + 1)

\* ruleList with x appended depth levels down its last member, a rule set
\* being opened where the last member is none (AND at the first level, OR
\* below)
RECURSIVE AppendAtDepth(_, _, _, _)
AppendAtDepth(ruleList, x, depth, cond) ==
    IF depth = 0 THEN Append(ruleList, x)
    ELSE IF ruleList # <<>> /\ ruleList[Len(ruleList)].t = "set"
    THEN [ruleList EXCEPT ![Len(ruleList)].rules = AppendAtDepth(@, x, depth - 1, "OR")]
    ELSE Append(ruleList,
                RuleSetObject(cond, AppendAtDepth(<<>>, x, depth - 1, "OR")))

\* the document is being written: one more check, with or without the
\* rules field
WriteCheck(hasRules) ==
    /\ parsed.state = "none"
    /\ Len(config) < MaxChecks
    /\ config' = Append(config, Check(Len(config) + 1, hasRules, <<>>, <<>>))
    /\ UNCHANGED <<rsVars, itemVars, cacheVars, mgrVars, parsed, reparsed>>

\* one more member of the rules of the last check, depth rule sets down
WriteRule(x, depth) ==
    /\ parsed.state = "none"
    /\ config # <<>>
    /\ config[Len(config)].hasRules
    /\ CountConfigLeaves(config, 1) < MaxLeaves
    /\ config' = [config EXCEPT ![Len(config)].rules = AppendAtDepth(@, x, depth, "AND")]
    /\ UNCHANGED <<rsVars, itemVars, cacheVars, mgrVars, parsed, reparsed>>

\* one more member of the actions of the last check
WriteAction(x) ==
    /\ parsed.state = "none"
    /\ config # <<>>
    /\ CountConfigLeaves(config, 1) < MaxLeaves
    /\ config' = [config EXCEPT ![Len(config)].actions = Append(@, x)]
    /\ UNCHANGED <<rsVars, itemVars, cacheVars, mgrVars, parsed, reparsed>>

\* lines 82-102: parseToStructured(config)
ParseToStructured ==
    /\ parsed.state = "none"
    /\ parsed' = parseToStructured(config)
    /\ UNCHANGED <<rsVars, itemVars, cacheVars, mgrVars, config, reparsed>>

\* lines 82-102: parseToStructured of the checks it returned
ParseStructured ==
    /\ parsed.state = "returned"
    /\ reparsed.state = "none"
    /\ reparsed' = parseToStructured(parsed.structuredChecks)
    /\ UNCHANGED <<rsVars, itemVars, cacheVars, mgrVars, config, parsed>>

\* no document
ConfigIdle ==
    /\ config = <<>>
    /\ parsed = NotParsed
    /\ reparsed = NotParsed

ConfigNext ==
    \/ \E h \in BOOLEAN : WriteCheck(h)
    \/ \E x \in RuleLeaves : WriteRule(x, 0)
    \/ \E x \in NestedLeaves, d \in 1..MaxDepth : WriteRule(x, d)
    \/ \E x \in ActionLeaves : WriteAction(x)
    \/ ParseToStructured
    \/ ParseStructured

(***************************************************************************)
(* SubredditResources.testItemCriteria and isItem, lines 409-541           *)
(***************************************************************************)
\* the activities of the platform: a submission and its comments, and a
\* comment on another submission
SubmissionS == [kind |-> "submission", name |-> "t3_s"]
CommentC == [kind |-> "comment", name |-> "t1_c"]
CommentD == [kind |-> "comment", name |-> "t1_d"]
CommentE == [kind |-> "comment", name |-> "t1_e"]

\* the activities item criteria are tested on
TestedItems == {SubmissionS, CommentC, CommentD}

\* item.link_id of a comment
link_id(item) == IF item.name = "t1_e" THEN "t3_u" ELSE "t3_s"

\* this.client.getSubmission(id): an unfetched submission of that id
getSubmission(id) == [kind |-> "submission", name |-> id]

\* the activity that getActivity returned
ActivityOf(val) ==
    [kind |-> IF val.name \in {"t3_s", "t3_u"} THEN "submission" ELSE "comment",
     name |-> val.name]

\* item[k]: a submission has a title, every activity has locked, none has
\* any other of the properties the criteria name
ItemProp(item, k) ==
    CASE k = "title" -> IF item.kind = "submission" THEN "m" ELSE "undefined"
      [] k = "locked" -> IF item.kind = "submission" THEN "true" ELSE "false"
      [] OTHER -> "undefined"

\* activityIsRemoved(item), activityIsDeleted(item), activityIsFiltered(item)
ActivityFlag(item, k) ==
    CASE k = "removed" -> IF item.name = "t1_c" THEN "true" ELSE "false"
      [] k = "deleted" -> "false"
      [] OTHER -> IF item.kind = "submission" THEN "true" ELSE "false"

\* the string is a regular expression
ValidRegExp(pattern) == pattern # "("

\* title.match(pattern) !== null
TitleMatches(title, pattern) == pattern = title

\* one key of a criteria entry with its value; the value of submissionState
\* is a list of entries
Field(k, v) == [k |-> k, v |-> v, states |-> <<>>]
SubmissionStateField(states) == [k |-> "submissionState", v |-> "list", states |-> states]

\* the submission states a comment's entry nests
NestedStates ==
    {<<>>,
     << <<Field("title", "m")>> >>,
     << <<Field("title", "n")>> >>,
     << <<Field("title", "(")>>, <<Field("locked", "true")>> >>}

\* the keys entries are written from: flags, a key set to undefined, titles,
\* a property activities have and one they have not, nested states
FieldPool ==
    {Field("removed", "true"), Field("removed", "false"),
     Field("deleted", "undefined"), Field("title", "m"), Field("title", "("),
     Field("locked", "false"), Field("flair", "x")}
    \cup {SubmissionStateField(s) : s \in NestedStates}

\* objectHash.sha1(states): the keys of an object in no order, the members
\* of an array in theirs
RECURSIVE HashStates(_)
HashStates(states) ==
    [n \in 1..Len(states) |->
        {[k |-> states[n][m].k, v |-> states[n][m].v,
          states |-> HashStates(states[n][m].states)] : m \in 1..Len(states[n])}]

\* line 422: the cache key of an item and its states
ItemCritHash(item, states) == <<"itemCrit", item.name, HashStates(states)>>

\* what a method has done to the store and the statistics so far, how often
\* isItem has been entered, how often the resource cache has logged an error
\* and the keys isItem has looked at
StartOf(store, counters) ==
    [cache |-> store, stats |-> counters, runs |-> 0, logs |-> 0, trace |-> <<>>]

\* what goes wrong during a call: nothing, the fetch of an activity
\* rejecting with err, or cache.get rejecting with err for the item criteria
\* keys, those of every activity or those of submissions only
NoFault == [at |-> "none", err |-> NoThrown]
FetchFault(err) == [at |-> "fetch", err |-> err]
GetFault(err) == [at |-> "get", err |-> err]
SubmissionGetFault(err) == [at |-> "getOfSubmission", err |-> err]

\* line 426: cache.get(hash) rejects for the key of the item
GetRejects(item, fault) ==
    \/ fault.at = "get"
    \/ fault.at = "getOfSubmission" /\ item.kind = "submission"

\* a TypeError: a property of undefined was read
TypeErrorValue == [t |-> "TypeError", logged |-> "undefined"]

ActivityValue(v) == [kind |-> "value", val |-> v, thrown |-> NoThrown]
ActivityThrow(e) == [kind |-> "throw", val |-> NoVal, thrown |-> e]
BooleanValue(b) == [kind |-> "value", val |-> b, thrown |-> NoThrown]
BooleanThrow(e) == [kind |-> "throw", val |-> FALSE, thrown |-> e]

\* lines 221-223, 423-425: identifierRequestCount, requestTimestamps and
\* requests of a category count one request for hash
CountRequest(counters, cat, hash, t) ==
    [counters EXCEPT ![cat].identifierRequestCount = Put(@, hash, IdWrap(@, hash) + 1),
                     ![cat].requestTimestamps = Append(@, t),
                     ![cat].requests = @ + 1]

\* lines 253-256: the fetch rejected; the error is logged, err.logged thrown
GetActivityFailed(cx, st) ==
    [st |-> [st EXCEPT !.logs = @ + 1], ret |-> ActivityThrow(Thrown(cx.fault.err))]

\* lines 224-233, 239-248: the request was counted; cache.get, and on a miss
\* the fetch, the count of the miss and cache.set
GetActivityCounted(item, branch, hash, cx, counted) ==
    IF CacheGet(counted.cache, hash, cx.now).found
    THEN [st |-> counted, ret |-> ActivityValue(CacheGet(counted.cache, hash, cx.now).val)]
    ELSE IF cx.fault.at = "fetch"
    THEN GetActivityFailed(cx, [counted EXCEPT !.cache = CacheAfterGet(@, hash, cx.now)])
    ELSE [st |-> [counted EXCEPT
                    !.stats[branch].miss = @ + 1,
                    !.cache = CacheSet(CacheAfterGet(@, hash, cx.now), hash, Fetch(item),
                                 ActivityTTL(branch, cx.submissionTTL, cx.commentTTL),
                                 cx.now)],
          ret |-> ActivityValue(Fetch(item))]

\* lines 219-251: getActivity on the branch of the item
GetActivityOn(item, branch, cx, st) ==
    IF branch = "none"
    THEN IF cx.fault.at = "fetch" THEN GetActivityFailed(cx, st)
         ELSE [st |-> st, ret |-> ActivityValue(Fetch(item))]
    ELSE GetActivityCounted(item, branch, ActivityHash(branch, item), cx,
             [st EXCEPT !.stats = CountRequest(@, branch, ActivityHash(branch, item),
                                               cx.now)])

\* lines 216-257: getActivity(item) from its call to its return or throw,
\* no other call being made meanwhile
GetActivityRun(item, cx, st) ==
    GetActivityOn(item, ActivityBranch(item, cx.submissionTTL, cx.commentTTL), cx, st)

\* lines 435-440: what testItemCriteria does with what its try block threw
CatchItemCriteria(err, st) ==
    IF err.t = "undefined"
    THEN [st |-> st, ret |-> BooleanThrow(TypeErrorValue)]
    ELSE [st |-> IF Logged(err) # TrueValue THEN [st EXCEPT !.logs = @ + 1] ELSE st,
          ret |-> BooleanThrow(err)]

\* a title fails only when it is matched and does not match
TitleFailsUnlessInvalid(item, f) ==
    ValidRegExp(f.v) /\ ~TitleMatches(ItemProp(item, "title"), f.v)

\* lines 505-515: the title does not match the string as a regular
\* expression, or the string is none and match throws
TitleFails(item, f) ==
    ~ValidRegExp(f.v) \/ ~TitleMatches(ItemProp(item, "title"), f.v)

\* a property the item has not fails like one of another value
PropertyFailsWhenAbsent(item, f) == ItemProp(item, f.k) # f.v

\* lines 519-528: the item has the property and its value is another
PropertyFails(item, f) ==
    ItemProp(item, f.k) # "undefined" /\ ItemProp(item, f.k) # f.v

\* the list passes only when its last entry does
EntriesLastDecides(r, last) == IF last THEN r.out = "pass" ELSE FALSE

\* line 536: the list passes with the entry that passed
EntryDecides(r, last) == r.out = "pass"

\* the first key of the one entry is submissionState, whatever keys follow
FirstKeySubmissionState(i, s) ==
    /\ i.kind = "comment"
    /\ Len(s) = 1
    /\ Len(s[1]) >= 1
    /\ s[1][1].k = "submissionState"
    /\ s[1][1].v # "undefined"

\* line 414: the one entry of the states of a comment has submissionState
\* as its only key
OnlySubmissionState(i, s) ==
    /\ i.kind = "comment"
    /\ Len(s) = 1
    /\ Len(s[1]) = 1
    /\ s[1][1].k = "submissionState"
    /\ s[1][1].v # "undefined"

\* the key is always made from the item that was handed in
SubstitutesNever(i, s) == FALSE

\* lines 414-420: the parent submission is tested in place of the comment
Substitutes(i, s) == OnlySubmissionState(i, s)

RECURSIVE IsItemFields(_, _, _, _, _, _)
RECURSIVE IsItemEntries(_, _, _, _, _)
RECURSIVE testItemCriteria(_, _, _, _)

\* the outcome of one key: the entry goes on to its next key ("pass"), has
\* failed, or an error was thrown
Outcome(st, out, thrown) == [st |-> st, out |-> out, thrown |-> thrown]

\* lines 470-473: testItemCriteria(sub, crit[k]) has returned or thrown
SubmissionTested(r) ==
    IF r.ret.kind = "throw" THEN Outcome(r.st, "throw", r.ret.thrown)
    ELSE Outcome(r.st, IF r.ret.val THEN "pass" ELSE "fail", NoThrown)

\* lines 468-470: getActivity(subProxy) has returned or thrown
SubmissionFetched(f, cx, a) ==
    IF a.ret.kind = "throw" THEN Outcome(a.st, "throw", a.ret.thrown)
    ELSE SubmissionTested(testItemCriteria(ActivityOf(a.ret.val), f.states, cx, a.st))

\* lines 459-474: submissionState of a comment, tested on its submission
SubmissionStateOutcome(item, f, cx, st) ==
    SubmissionFetched(f, cx, GetActivityRun(getSubmission(link_id(item)), cx, st))

\* lines 458-530: the switch on the key f, which isItem has noted in seen
SwitchOutcome(item, f, cx, seen) ==
    IF f.k = "submissionState"
    THEN IF item.kind # "comment" THEN Outcome(seen, "pass", NoThrown)
         ELSE SubmissionStateOutcome(item, f, cx, seen)
    ELSE IF f.k \in {"removed", "deleted", "filtered"}
    THEN Outcome(seen, IF ActivityFlag(item, f.k) # f.v THEN "fail" ELSE "pass", NoThrown)
    ELSE IF f.k = "title"
    THEN IF item.kind = "comment" THEN Outcome(seen, "pass", NoThrown)
         ELSE Outcome(seen, IF TitleFails(item, f) THEN "fail" ELSE "pass", NoThrown)
    ELSE Outcome(seen, IF PropertyFails(item, f) THEN "fail" ELSE "pass", NoThrown)

\* lines 457-530: one key f of entry e
FieldOutcome(item, f, e, cx, st) ==
    IF f.v = "undefined" THEN Outcome(st, "pass", NoThrown)
    ELSE SwitchOutcome(item, f, cx,
             [st EXCEPT !.trace = Append(@, [item |-> item.name, entry |-> e,
                                             k |-> f.k])])

\* lines 455-534: key k of entry e has outcome r
FieldsAfter(item, crit, e, k, cx, r) ==
    IF r.out = "pass" THEN IsItemFields(item, crit, e, k + 1, cx, r.st) ELSE r

\* lines 455-534: the keys of entry e from key k on; out is "pass", "fail"
\* or "throw"
IsItemFields(item, crit, e, k, cx, st) ==
    IF k > Len(crit) THEN Outcome(st, "pass", NoThrown)
    ELSE FieldsAfter(item, crit, e, k, cx, FieldOutcome(item, crit[k], e, cx, st))

\* lines 535-539: entry e has outcome r
EntriesAfter(item, stateList, e, cx, r) ==
    IF r.out = "throw" THEN [st |-> r.st, ret |-> BooleanThrow(r.thrown)]
    ELSE IF EntryDecides(r, e = Len(stateList))
    THEN [st |-> r.st, ret |-> BooleanValue(TRUE)]
    ELSE IsItemEntries(item, stateList, e + 1, cx, r.st)

\* lines 453-540: the entries from entry e on
IsItemEntries(item, stateList, e, cx, st) ==
    IF e > Len(stateList) THEN [st |-> st, ret |-> BooleanValue(FALSE)]
    ELSE EntriesAfter(item, stateList, e, cx,
                      IsItemFields(item, stateList[e], e, 1, cx, st))

\* lines 446-541: isItem(item, stateCriteria, logger)
isItem(item, stateList, cx, st) ==
    IF Len(stateList) = 0
    THEN [st |-> [st EXCEPT !.runs = @ + 1], ret |-> BooleanValue(TRUE)]
    ELSE IsItemEntries(item, stateList, 1, cx, [st EXCEPT !.runs = @ + 1])

\* lines 431-440: isItem has returned or thrown; the miss is counted and
\* the result stored
ItemCriteriaTested(hash, cx, r) ==
    IF r.ret.kind = "throw" THEN CatchItemCriteria(r.ret.thrown, r.st)
    ELSE [st |-> [r.st EXCEPT !.stats["itemCrit"].miss = @ + 1,
                              !.cache = CacheSet(@, hash, r.ret.val,
                                                 cx.filterCriteriaTTL.secs, cx.now)],
          ret |-> r.ret]

\* lines 426-434: the request was counted; cache.get, and on a miss isItem
ItemCriteriaCounted(item, states, hash, cx, counted) ==
    IF GetRejects(item, cx.fault) THEN CatchItemCriteria(cx.fault.err, counted)
    ELSE IF CacheGet(counted.cache, hash, cx.now).found
    THEN [st |-> counted, ret |-> BooleanValue(CacheGet(counted.cache, hash, cx.now).val)]
    ELSE ItemCriteriaTested(hash, cx,
             isItem(item, states, cx,
                    [counted EXCEPT !.cache = CacheAfterGet(@, hash, cx.now)]))

\* lines 421-425: the try block on the item and the states the key is of
ItemCriteriaOf(item, states, cx, st) ==
    ItemCriteriaCounted(item, states, ItemCritHash(item, states), cx,
        [st EXCEPT !.stats = CountRequest(@, "itemCrit", ItemCritHash(item, states),
                                          cx.now)])

\* lines 416-419: getActivity(subProxy) has returned or thrown, outside the
\* try block
ItemCriteriaSubstituted(s, cx, a) ==
    IF a.ret.kind = "throw" THEN [st |-> a.st, ret |-> BooleanThrow(a.ret.thrown)]
    ELSE ItemCriteriaOf(ActivityOf(a.ret.val), s[1][1].states, cx, a.st)

\* lines 409-444: testItemCriteria(i, s) from its call to its return or
\* throw, no other call being made meanwhile
testItemCriteria(i, s, cx, st) ==
    IF ~cx.filterCriteriaTTL.enabled THEN isItem(i, s, cx, st)
    ELSE IF Substitutes(i, s)
    THEN ItemCriteriaSubstituted(s, cx,
             GetActivityRun(getSubmission(link_id(i)), cx, st))
    ELSE ItemCriteriaOf(i, s, cx, st)

\* the settings and the moment of a call, and what goes wrong during it
Context(fault) ==
    [submissionTTL |-> submissionTTL, commentTTL |-> commentTTL,
     filterCriteriaTTL |-> filterCriteriaTTL, now |-> now, fault |-> fault]

\* how many keys the entries of a list have in all
RECURSIVE CountFields(_, _)
CountFields(stateList, e) ==
    IF e > Len(stateList) THEN 0
    ELSE Len(stateList[e]) + CountFields(stateList, e + 1)

\* the criteria are being written: one more entry
WriteEntry ==
    /\ started = 0
    /\ Len(stateCriteria) < MaxEntries
    /\ stateCriteria' = Append(stateCriteria, <<>>)
    /\ UNCHANGED <<rsVars, cacheVars, mgrVars, cfgVars, wikiTTL, filterCriteriaTTL, lastCall>>

\* one more key of the last entry, which does not have the key yet
WriteField(f) ==
    /\ started = 0
    /\ stateCriteria # <<>>
    /\ CountFields(stateCriteria, 1) < MaxFields
    /\ LET last == stateCriteria[Len(stateCriteria)]
       IN  \A m \in 1..Len(last) : last[m].k # f.k
    /\ stateCriteria' = [stateCriteria EXCEPT ![Len(stateCriteria)] = Append(@, f)]
    /\ UNCHANGED <<rsVars, cacheVars, mgrVars, cfgVars, wikiTTL, filterCriteriaTTL, lastCall>>

\* no call of these methods was made
NoCall ==
    [op |-> "none", item |-> [kind |-> "", name |-> ""], fault |-> NoFault,
     ret |-> BooleanValue(FALSE), runs |-> 0, logs |-> 0, trace |-> <<>>,
     at |-> 0, before |-> <<>>]

\* lines 409-444: testItemCriteria(i, stateCriteria) is called and completes
TestItemCriteria(i, fault) ==
    /\ started < MaxCalls
    /\ LET r == testItemCriteria(i, stateCriteria, Context(fault), StartOf(cache, stats))
       IN  /\ cache' = r.st.cache
           /\ stats' = r.st.stats
           /\ lastCall' = Append(lastCall,
                             [op |-> "testItemCriteria", item |-> i, fault |-> fault,
                              ret |-> r.ret, runs |-> r.st.runs, logs |-> r.st.logs,
                              trace |-> r.st.trace, at |-> now, before |-> cache])
    /\ started' = started + 1
    /\ UNCHANGED <<rsVars, mgrVars, cfgVars, submissionTTL, commentTTL, authorTTL, now,
                   remote, calls, obs, wikiTTL, filterCriteriaTTL, stateCriteria>>

\* the clock of the item criteria
ItemTick ==
    /\ now < MaxTime
    /\ now' = now + 1
    /\ UNCHANGED <<rsVars, mgrVars, cfgVars, itemVars, started, submissionTTL, commentTTL,
                   authorTTL, cache, stats, remote, calls, obs>>

\* no criteria and no call
ItemIdle ==
    /\ wikiTTL = TTLSecs(MaxTTL)
    /\ filterCriteriaTTL = TTLSecs(MaxTTL)
    /\ stateCriteria = <<>>
    /\ lastCall = <<>>

\* a resource cache as constructed, item criteria cached or not
ItemInit ==
    /\ submissionTTL = TTLSecs(MaxTTL)
    /\ commentTTL = TTLFalse
    /\ authorTTL = TTLFalse
    /\ cache = <<>>
    /\ stats = [c \in Categories |-> EmptyStats]
    /\ now = 0
    /\ remote = 0
    /\ calls = [i \in 1..MaxCalls |-> IdleCall]
    /\ started = 0
    /\ obs = [i \in 1..MaxCalls |-> NoObs]
    /\ wikiTTL = TTLFalse
    /\ filterCriteriaTTL \in {TTLFalse, TTLSecs(MaxTTL)}
    /\ stateCriteria = <<>>
    /\ lastCall = <<>>

ItemNext ==
    \/ WriteEntry
    \/ \E f \in FieldPool : WriteField(f)
    \/ \E i \in TestedItems : TestItemCriteria(i, NoFault)
    \/ \E i \in TestedItems : TestItemCriteria(i, FetchFault(ErrorValue("undefined")))
    \/ ItemTick

(***************************************************************************)
(* testItemCriteria while cache.get rejects                                *)
(***************************************************************************)
\* calls of testItemCriteria during which cache.get rejects for the item
\* criteria keys of submissions, with an Error or with an Error that carries
\* logged = true
ItemFaultNext ==
    \/ WriteEntry
    \/ \E f \in FieldPool : WriteField(f)
    \/ \E i \in TestedItems, err \in FetchErrors :
          TestItemCriteria(i, SubmissionGetFault(err))
    \/ ItemTick

(***************************************************************************)
(* SubredditResources.getContent, lines 305-378                            *)
(***************************************************************************)
\* subreddit.display_name of the community the resource cache is of
display_name == "sub"

\* the values getContent is given: a reference to a wiki page, of this
\* community when subreddit is "", a URL, or the content itself
WikiVal(page, sub) == [kind |-> "wiki", wiki |-> page, subreddit |-> sub, url |-> ""]
UrlVal(u) == [kind |-> "url", wiki |-> "", subreddit |-> "", url |-> u]
TextVal == [kind |-> "text", wiki |-> "", subreddit |-> "", url |-> ""]
ContentVals == {WikiVal("rules", ""), WikiVal("rules", "other"), UrlVal("https://x"), TextVal}

\* parseWikiContext(val) and parseExternalUrl(val) are not undefined
parseWikiContext(val) == val.kind = "wiki"
parseExternalUrl(val) == val.kind = "url"

\* lines 307-315: cacheKey, <<>> when it is undefined
ContentCacheKey(val) ==
    IF parseWikiContext(val)
    THEN IF val.subreddit # "" THEN <<val.wiki, "|", val.subreddit>> ELSE <<val.wiki>>
    ELSE IF parseExternalUrl(val) THEN <<val.url>>
    ELSE <<>>

\* line 322: the key of the store
ContentHash(val) == <<display_name, "content", ContentCacheKey(val)>>

\* what the lookup at the source does: it delivers the content, or it
\* rejects with an error whose statusCode is a number, 0 when it has none
LookupDelivers == [ok |-> TRUE, statusCode |-> 0]
LookupRejects(code) == [ok |-> FALSE, statusCode |-> code]
StatusCodes == {0, 401, 403, 404, 500}

\* the lookups a value can meet: a URL fetch that rejects has no status
LookupsOf(val) ==
    IF parseWikiContext(val) THEN {LookupDelivers} \cup {LookupRejects(c) : c \in StatusCodes}
    ELSE IF parseExternalUrl(val) THEN {LookupDelivers, LookupRejects(0)}
    ELSE {LookupDelivers}

\* wikiPage.content_md, response.text(): the content at the source
SourceContent(val) == [name |-> "content_md", ver |-> remote]

\* the message that reads the status differently: 403 is no permission
\* problem
WikiMessageOnly401(statusCode) ==
    IF statusCode = 404 THEN "Could not find a wiki page"
    ELSE IF statusCode = 401 THEN "Bot either does not have permission"
    ELSE "Could not read wiki page for an unknown reason"

\* lines 351-358: the message for a wiki page that could not be read
WikiMessage(statusCode) ==
    IF statusCode = 404 THEN "Could not find a wiki page"
    ELSE IF statusCode = 403 \/ statusCode = 401 THEN "Bot either does not have permission"
    ELSE "Could not read wiki page for an unknown reason"

\* line 367: the message for a URL that could not be fetched
UrlMessage == "Error occurred while trying to fetch the url"

\* new LoggedError(msg): an Error that says it was logged
LoggedError(msg) == [t |-> "error", logged |-> "true", msg |-> msg]

ContentValue(v) == [kind |-> "value", val |-> v, thrown |-> NoThrown]
ContentThrow(e) == [kind |-> "throw", val |-> NoVal, thrown |-> e]

\* lines 339-371: the lookup at the source; a rejection is logged and a
\* LoggedError with the message thrown
ContentLookup(val, lookup, st) ==
    IF lookup.ok
    THEN [st |-> [st EXCEPT !.runs = @ + 1], ret |-> ContentValue(SourceContent(val))]
    ELSE [st |-> [st EXCEPT !.runs = @ + 1, !.logs = @ + 1],
          ret |-> ContentThrow(LoggedError(IF parseWikiContext(val)
                                           THEN WikiMessage(lookup.statusCode)
                                           ELSE UrlMessage))]

\* lines 373-377: the content that was read is stored, when the category is
\* cached, and returned
ContentStored(hash, ttl, t, r) ==
    IF r.ret.kind = "value" /\ ttl.enabled
    THEN [r EXCEPT !.st.cache = CacheSet(@, hash, r.ret.val, ttl.secs, t)]
    ELSE r

\* lines 327-334: the request was counted; cache.get, and on a miss the
\* count of the miss and the lookup
ContentCounted(val, lookup, ttl, t, counted) ==
    IF CacheGet(counted.cache, ContentHash(val), t).found
    THEN [st |-> counted, ret |-> ContentValue(CacheGet(counted.cache, ContentHash(val), t).val)]
    ELSE ContentStored(ContentHash(val), ttl, t,
             ContentLookup(val, lookup,
                 [counted EXCEPT !.stats["content"].miss = @ + 1,
                                 !.cache = CacheAfterGet(@, ContentHash(val), t)]))

\* lines 305-378: getContent(val) from its call to its return or throw, no
\* other call being made meanwhile
getContent(val, lookup, ttl, t, st) ==
    IF ContentCacheKey(val) = <<>> THEN [st |-> st, ret |-> ContentValue(val)]
    ELSE IF ttl.enabled
    THEN ContentCounted(val, lookup, ttl, t,
             [st EXCEPT !.stats = CountRequest(@, "content", ContentCacheKey(val), t)])
    ELSE ContentStored(ContentHash(val), ttl, t, ContentLookup(val, lookup, st))

(***************************************************************************)
(* SubredditResources.getCommentCheckCacheResult and                       *)
(* setCommentCheckCacheResult, lines 543-563                               *)
(***************************************************************************)
\* the comments check results are cached of
CheckedItems == {CommentC, CommentD, CommentE}

\* getActivityAuthorName(item.author)
getActivityAuthorName(item) == IF item.name = "t1_d" THEN "bob" ELSE "alice"

\* the configurations of two checks, as lists of key/value pairs
CheckConfigs == {<<<<"name", "checkA">>>>, <<<<"name", "checkB">>>>}

\* the results of a check that are cached
UserResults == {[result |-> TRUE], [result |-> FALSE]}

\* the ttl, in seconds, a caller hands over
CallerTTLs == {0, MaxTTL}

\* the key that leaves the check configuration out
CommentCheckHashNoConfig(item, checkConfig) ==
    <<"commentUserResult", getActivityAuthorName(item), link_id(item)>>

\* lines 545, 560: the key of the store
CommentCheckHash(item, checkConfig) ==
    <<"commentUserResult", getActivityAuthorName(item), link_id(item),
      objectHash(checkConfig)>>

UserResultValue(v) == [kind |-> "value", val |-> v, thrown |-> NoThrown]
UserResultUndefined == [kind |-> "undefined", val |-> NoVal, thrown |-> NoThrown]

\* lines 551-555: a miss is counted when nothing was found
CommentCheckFound(found, st) ==
    IF found.found THEN [st |-> st, ret |-> UserResultValue(found.val)]
    ELSE [st |-> [st EXCEPT !.stats["commentCheck"].miss = @ + 1],
          ret |-> UserResultUndefined]

\* lines 543-556: getCommentCheckCacheResult(item, checkConfig); the request
\* is counted in requests only
getCommentCheckCacheResult(item, checkConfig, t, st) ==
    CommentCheckFound(CacheGet(st.cache, CommentCheckHash(item, checkConfig), t),
        [st EXCEPT !.stats["commentCheck"].requests = @ + 1,
                   !.cache = CacheAfterGet(@, CommentCheckHash(item, checkConfig), t)])

\* lines 558-563: setCommentCheckCacheResult(item, checkConfig, result, ttl)
setCommentCheckCacheResult(item, checkConfig, result, ttl, t, st) ==
    [st |-> [st EXCEPT !.cache = CacheSet(@, CommentCheckHash(item, checkConfig),
                                          result, ttl, t)],
     ret |-> UserResultUndefined]

(***************************************************************************)
(* Calls of getContent and of the check result cache                       *)
(***************************************************************************)
\* a completed call: the method, its arguments, what it returned or threw,
\* how often the source was looked up, and the moment, the store and the
\* statistics it started from
CallOf(op, arg, r) ==
    [op |-> op, arg |-> arg, ret |-> r.ret, runs |-> r.st.runs, logs |-> r.st.logs,
     at |-> now, before |-> cache, counted |-> stats]

Completes(op, arg, r) ==
    /\ started < MaxCalls
    /\ started' = started + 1
    /\ cache' = r.st.cache
    /\ stats' = r.st.stats
    /\ lastCall' = Append(lastCall, CallOf(op, arg, r))
    /\ UNCHANGED <<rsVars, mgrVars, cfgVars, submissionTTL, commentTTL, authorTTL, now,
                   remote, calls, obs, wikiTTL, filterCriteriaTTL, stateCriteria>>

ContentArg(val, lookup) ==
    [val |-> val, lookup |-> lookup, item |-> CommentC, checkConfig |-> <<>>,
     result |-> [result |-> FALSE], ttl |-> 0]

CheckArg(item, checkConfig, result, ttl) ==
    [val |-> TextVal, lookup |-> LookupDelivers, item |-> item,
     checkConfig |-> checkConfig, result |-> result, ttl |-> ttl]

\* lines 305-378: getContent(val) is called and completes
GetContent(val, lookup) ==
    Completes("getContent", ContentArg(val, lookup),
              getContent(val, lookup, wikiTTL, now, StartOf(cache, stats)))

\* lines 558-563: setCommentCheckCacheResult is called and completes
SetCommentCheckCacheResult(item, checkConfig, result, ttl) ==
    Completes("setCommentCheckCacheResult", CheckArg(item, checkConfig, result, ttl),
              setCommentCheckCacheResult(item, checkConfig, result, ttl, now,
                                         StartOf(cache, stats)))

\* lines 543-556: getCommentCheckCacheResult is called and completes
GetCommentCheckCacheResult(item, checkConfig) ==
    Completes("getCommentCheckCacheResult",
              CheckArg(item, checkConfig, [result |-> FALSE], 0),
              getCommentCheckCacheResult(item, checkConfig, now, StartOf(cache, stats)))

\* a resource cache as constructed, content cached for a time, for ever or
\* not at all
ContentInit ==
    /\ submissionTTL = TTLSecs(MaxTTL)
    /\ commentTTL = TTLFalse
    /\ authorTTL = TTLFalse
    /\ cache = <<>>
    /\ stats = [c \in Categories |-> EmptyStats]
    /\ now = 0
    /\ remote = 0
    /\ calls = [i \in 1..MaxCalls |-> IdleCall]
    /\ started = 0
    /\ obs = [i \in 1..MaxCalls |-> NoObs]
    /\ wikiTTL \in TTLSettings
    /\ filterCriteriaTTL = TTLFalse
    /\ stateCriteria = <<>>
    /\ lastCall = <<>>

ContentNext ==
    \/ \E val \in ContentVals : \E lookup \in LookupsOf(val) : GetContent(val, lookup)
    \/ \E item \in CheckedItems, checkConfig \in CheckConfigs, result \in UserResults,
          ttl \in CallerTTLs : SetCommentCheckCacheResult(item, checkConfig, result, ttl)
    \/ \E item \in CheckedItems, checkConfig \in CheckConfigs :
          GetCommentCheckCacheResult(item, checkConfig)
    \/ ItemTick

(***************************************************************************)
(* BotResourcesManager.set reusing the resource cache, lines 686-693,      *)
(* while invocations of getActivity are in flight                          *)
(***************************************************************************)
\* lines 686-692: set is called for the community with settings whose hash
\* is that of its resource cache: the cache is reused and line 692 replaces
\* its statistics by new ones. An invocation suspended in the wrap of line
\* 221 or 236 has already evaluated the identifierRequestCount it will call
\* set on, which is the one that was replaced
SetReusesCache ==
    /\ stats' = [c \in Categories |-> EmptyStats]
    /\ calls' = [i \in 1..MaxCalls |->
                    IF calls[i].pc = "idWrap" THEN [calls[i] EXCEPT !.pc = "idWrapReplaced"]
                    ELSE calls[i]]
    /\ UNCHANGED <<rsVars, itemVars, mgrVars, cfgVars, started, submissionTTL, commentTTL,
                   authorTTL, cache, now, remote, obs>>

\* lines 221 and 236: wrap has resolved and set(hash, n + 1) is made on the
\* identifierRequestCount of the statistics that were replaced meanwhile
GetActivityIdSetReplaced(i) ==
    /\ calls[i].op = "getActivity" /\ calls[i].pc = "idWrapReplaced"
    /\ calls' = [calls EXCEPT ![i].pc = "idSet"]
    /\ UNCHANGED <<rsVars, itemVars, mgrVars, cfgVars, started, submissionTTL, commentTTL,
                   authorTTL, cache, stats, now, remote, obs>>

\* invocations of getActivity interleaved with each other and with set
ReloadNext ==
    \/ ActivityNext
    \/ SetReusesCache
    \/ \E i \in 1..MaxCalls : GetActivityIdSetReplaced(i)

(***************************************************************************)
(* The specifications                                                      *)
(***************************************************************************)
InitManager == ManagerInit /\ CacheIdle /\ RuleSetIdle /\ ConfigIdle /\ ItemIdle

SpecManager == InitManager /\ [][ManagerNext]_vars

InitShared == ManagerShared /\ CacheIdle /\ RuleSetIdle /\ ConfigIdle /\ ItemIdle

SpecShared == InitShared /\ [][ManagerNext]_vars

InitConfig == ConfigIdle /\ RuleSetIdle /\ CacheIdle /\ ManagerIdle /\ ItemIdle

SpecConfig == InitConfig /\ [][ConfigNext]_vars

\* where no time passes a TTL is either false or not
InitActivity ==
    ActivityInit({TTLFalse, TTLSecs(MaxTTL)}) /\ RuleSetIdle /\ ManagerIdle /\ ConfigIdle /\ ItemIdle

InitExpiry == ActivityInit(TTLSettings) /\ RuleSetIdle /\ ManagerIdle /\ ConfigIdle /\ ItemIdle

SpecActivity == InitActivity /\ [][ActivityNext]_vars

SpecExpiry == InitExpiry /\ [][ExpiryNext]_vars

\* a resource cache as constructed (lines 104-125) with some author TTL
InitAuthor ==
    /\ submissionTTL = TTLFalse
    /\ commentTTL = TTLFalse
    /\ authorTTL \in TTLSettings
    /\ cache = <<>>
    /\ stats = [c \in Categories |-> EmptyStats]
    /\ now = 0
    /\ remote = 0
    /\ calls = [i \in 1..MaxCalls |-> IdleCall]
    /\ started = 0
    /\ obs = [i \in 1..MaxCalls |-> NoObs]
    /\ RuleSetIdle
    /\ ManagerIdle
    /\ ConfigIdle
    /\ ItemIdle

SpecAuthor == InitAuthor /\ [][AuthorNext]_vars

InitRuleSet == RuleSetInit /\ CacheIdle /\ ManagerIdle /\ ConfigIdle /\ ItemIdle

SpecRuleSet == InitRuleSet /\ [][RuleSetNext]_vars

InitItem == ItemInit /\ RuleSetIdle /\ ManagerIdle /\ ConfigIdle

SpecItem == InitItem /\ [][ItemNext]_vars

SpecItemFault == InitItem /\ [][ItemFaultNext]_vars

InitContent == ContentInit /\ RuleSetIdle /\ ManagerIdle /\ ConfigIdle

SpecContent == InitContent /\ [][ContentNext]_vars

SpecReload == InitActivity /\ [][ReloadNext]_vars

(***************************************************************************)
(* Claims about RuleSet.run, checked under SpecRuleSet                     *)
(***************************************************************************)
HasChild(p) == \E i \in 1..Len(rules) : rules[i].passed = p

\* the first child, in declared order, whose run yields passed = p
FirstChild(p) ==
    CHOOSE i \in 1..Len(rules) :
        /\ rules[i].passed = p
        /\ \A j \in 1..(i - 1) : rules[j].passed # p

\* the results of children 1..n in declared order
ResultsUpTo(n) == [i \in 1..n |-> ResultOf(rules[i])]

Outcomes == [i \in 1..Len(rules) |-> rules[i].passed]

\* C1: under AND, run evaluates the children in declared order and returns at
\* the first applicable failing child: the flag is false, the result list holds
\* one entry per child up to and including that child, and no later child is
\* ever run.
C1_AndStopsAtFirstFailing ==
    (condition = "AND" /\ HasChild("false")) =>
        LET j == FirstChild("false")
        IN  /\ Len(rsCalls) <= j
            /\ \A k \in 1..Len(rsCalls) : rsCalls[k].rule = rules[k].name
            /\ rsPc = "done" =>
                  /\ rsRet.returned
                  /\ rsRet.triggered = FALSE
                  /\ rsRet.results = ResultsUpTo(j)
                  /\ Len(rsCalls) = j

C1_Witness ==
    /\ condition = "AND"
    /\ Outcomes = <<"true", "false", "true">>
    /\ rsPc = "done"
    /\ rsRet.triggered = FALSE
    /\ Len(rsRet.results) = 2
    /\ Len(rsCalls) = 2

\* C2: under OR, run evaluates the children in declared order and returns at
\* the first applicable passing child: the flag is true, the result list holds
\* one entry per child up to and including that child, and no later child is
\* ever run.
C2_OrStopsAtFirstPassing ==
    (condition = "OR" /\ HasChild("true")) =>
        LET j == FirstChild("true")
        IN  /\ Len(rsCalls) <= j
            /\ \A k \in 1..Len(rsCalls) : rsCalls[k].rule = rules[k].name
            /\ rsPc = "done" =>
                  /\ rsRet.returned
                  /\ rsRet.triggered = TRUE
                  /\ rsRet.results = ResultsUpTo(j)
                  /\ Len(rsCalls) = j

C2_Witness ==
    /\ condition = "OR"
    /\ Outcomes = <<"false", "true", "false">>
    /\ rsPc = "done"
    /\ rsRet.triggered = TRUE
    /\ Len(rsRet.results) = 2
    /\ Len(rsCalls) = 2

\* C3: a set with no children, or whose every child is not applicable, returns
\* triggered = false under AND and under OR, with one result per child.
C3_NothingApplicableIsFalse ==
    (rsPc = "done" /\ \A i \in 1..Len(rules) : rules[i].passed = "null") =>
        /\ rsRet.returned
        /\ rsRet.triggered = FALSE
        /\ rsRet.results = ResultsUpTo(Len(rules))

C3_Witness ==
    /\ condition = "AND"
    /\ Outcomes = <<"null", "null">>
    /\ rsPc = "done"
    /\ rsRet.triggered = FALSE
    /\ Len(rsRet.results) = 2

\* the same set with its not-applicable children removed
ApplicableOnly(rs) == SelectSeq(rs, LAMBDA r : r.passed # "null")

\* C4: a not-applicable child has its result appended but causes no return and
\* does not change the flag: the flag returned equals the flag of the same set
\* with the not-applicable children removed.
C4_NotApplicableIsNeutral ==
    [][/\ (rsPc = "await" /\ rules[rsIdx].passed = "null") =>
            /\ rsPc' = "loop"
            /\ results' = Append(results, ResultOf(rules[rsIdx]))
            /\ runOne' = runOne
            /\ rsRet' = rsRet
       /\ rsPc' = "done" =>
            /\ rsRet'.returned
            /\ rsRet'.triggered =
                  RunFrom(condition, ApplicableOnly(rules), 1, <<>>, FALSE).triggered
      ]_vars

C4_Witness ==
    /\ Outcomes = <<"null", "true", "null">>
    /\ condition = "AND"
    /\ rsPc = "done"
    /\ rsRet.triggered = TRUE
    /\ Len(rsRet.results) = 3

\* C5: the k-th child is started only after children 1..k-1 have completed
\* and is handed the caller's existingResults followed by the results of
\* children 1..k-1 in declared order (those of not-applicable children
\* included); at most one child is in flight at any time.
C5_ChildrenRunInOrderOnPriorResults ==
    /\ \A k \in 1..Len(rsCalls) :
          /\ rsCalls[k].rule = rules[k].name
          /\ rsCalls[k].prior = existingResults \o ResultsUpTo(k - 1)
    /\ results = ResultsUpTo(Len(results))
    /\ Len(rsCalls) = Len(results) + (IF rsPc = "await" THEN 1 ELSE 0)

C5_Witness ==
    /\ Len(existingResults) = 1
    /\ Outcomes = <<"null", "true", "true">>
    /\ condition = "AND"
    /\ Len(rsCalls) = 3
    /\ Len(rsCalls[3].prior) = 3
    /\ rsPc = "await"

(***************************************************************************)
(* Claims about getActivity, checked under SpecActivity and SpecExpiry     *)
(***************************************************************************)
\* the cache category of an activity and the TTL configured for it
ItemCategory(item) == IF item.kind = "submission" THEN "submission" ELSE "comment"

ItemTTL(item) == IF item.kind = "submission" THEN submissionTTL ELSE commentTTL

\* the key {submission|comment}-{id} of an activity
ItemKey(item) == <<IF item.kind = "submission" THEN "sub" ELSE "comm", item.name>>

ActivityCalls == {i \in 1..MaxCalls : calls[i].op = "getActivity"}

\* the step taken is the one in which invocation i reads the store
ReadsStore(i) == obs'[i].reads = obs[i].reads + 1

\* the step taken is the one in which invocation i writes the store
WritesStore(i) == Len(obs'[i].writes) = Len(obs[i].writes) + 1

\* invocation i left every counter of the categories in cs alone
CountedNothing(i, cs) ==
    \A c \in cs : obs[i].req[c] = 0 /\ obs[i].miss[c] = 0 /\ obs[i].stamps[c] = 0

\* C6: with the TTL of an activity's category false, getActivity bypasses the
\* cache for that activity: it reads and writes no store entry, records no
\* statistics, and every call fetches; for a submission with submissionTTL
\* false whatever commentTTL is, for a comment with commentTTL false whatever
\* submissionTTL is.
C6_DisabledCategoryBypassesCache ==
    \A i \in ActivityCalls :
        (calls[i].pc = "done" /\ ~ItemTTL(calls[i].item).enabled) =>
            /\ obs[i].reads = 0
            /\ obs[i].writes = <<>>
            /\ obs[i].ids = 0
            /\ CountedNothing(i, Categories)
            /\ obs[i].fetches = 1

\* C7: with the category enabled, getActivity on a key present in the store
\* returns the stored value without a fetch and leaves the miss count alone;
\* on an absent key it fetches exactly once, stores the fetched value under
\* the category TTL and adds one to the miss count. Either way it adds exactly
\* one to the category's request count.
C7_HitAndMissAccounting ==
    [][\A i \in 1..MaxCalls :
         LET c == calls'[i]
             o == obs'[i]
             cat == ItemCategory(c.item)
             key == ItemKey(c.item)
         IN  (c.op = "getActivity" /\ ItemTTL(c.item).enabled) =>
               /\ ReadsStore(i) =>
                     /\ c.cached.found = (Has(cache, key) /\ ~IsStale(cache[key], now))
                     /\ c.cached.found => c.cached.val = cache[key].val
               /\ (c.pc = "done" /\ c.cached.found) =>
                     /\ c.ret = [kind |-> "value", val |-> c.cached.val]
                     /\ o.fetches = 0
                     /\ o.writes = <<>>
                     /\ o.miss[cat] = 0
               /\ (c.pc = "done" /\ ~c.cached.found) =>
                     /\ o.fetches = 1
                     /\ c.ret.kind = "value" =>
                           /\ c.ret.val = c.fetched
                           /\ Len(o.writes) = 1
                           /\ o.writes[1].key = key
                           /\ o.writes[1].entry.val = c.fetched
                           /\ o.writes[1].entry.ttl = ItemTTL(c.item).secs
                           /\ o.miss[cat] = 1
               /\ c.pc = "done" =>
                     /\ o.reads = 1
                     /\ o.req[cat] = 1
                     /\ o.stamps[cat] = 1
                     /\ \A x \in Categories \ {cat} :
                           o.req[x] = 0 /\ o.miss[x] = 0 /\ o.stamps[x] = 0
      ]_vars

\* a call that hit on what an earlier call had fetched and stored, and a call
\* that missed, in one run
C7_Witness ==
    \E i, j \in ActivityCalls :
        /\ calls[i].pc = "done" /\ calls[j].pc = "done"
        /\ calls[i].item = calls[j].item
        /\ calls[i].item.kind = "comment"
        /\ commentTTL.enabled /\ submissionTTL # commentTTL
        /\ ~calls[i].cached.found /\ Len(obs[i].writes) = 1
        /\ calls[j].cached.found /\ obs[j].fetches = 0
        /\ calls[j].ret.val = calls[i].fetched
        /\ calls[j].ret.val.ver < remote
        /\ stats["comment"].requests = 2 /\ stats["comment"].miss = 1

\* C8: an entry stored with a positive TTL is a hit for every request made
\* before the TTL has elapsed and a miss for the first request made after it
\* has elapsed or after the entry was pruned; that request fetches again,
\* stores the value again and adds one to the miss count. Pruning drops no
\* entry whose TTL has not elapsed.
C8_EntryExpiresAfterTTL ==
    [][/\ \A i \in 1..MaxCalls :
            LET c == calls'[i]
                o == obs'[i]
                key == ItemKey(c.item)
                ttl == ItemTTL(c.item)
            IN  (c.op = "getActivity" /\ ttl.enabled /\ ttl.secs > 0) =>
                  /\ (ReadsStore(i) /\ Has(cache, key)) =>
                        /\ now - cache[key].setAt < ttl.secs =>
                              c.cached = [found |-> TRUE, val |-> cache[key].val]
                        /\ now - cache[key].setAt > ttl.secs => ~c.cached.found
                  /\ (ReadsStore(i) /\ ~Has(cache, key)) => ~c.cached.found
                  /\ (WritesStore(i) /\ ~c.cached.found) =>
                        /\ o.fetches = 1
                        /\ o.miss[ItemCategory(c.item)] = 1
                        /\ Has(cache', key)
                        /\ cache'[key] = [val |-> c.fetched, setAt |-> now,
                                          ttl |-> ttl.secs]
                  /\ (c.pc = "done" /\ ~c.cached.found /\ c.ret.kind = "value") =>
                        Len(o.writes) = 1
       /\ \A k \in DOMAIN cache :
            (now' - cache[k].setAt <= cache[k].ttl /\ ~(\E i \in 1..MaxCalls : WritesStore(i)))
                => (Has(cache', k) /\ cache'[k] = cache[k])
      ]_vars

\* an entry stored by one request, a later request after its TTL had elapsed
\* that missed, fetched again and stored again
C8_Witness ==
    \E i, j \in ActivityCalls :
        /\ calls[i].pc = "done" /\ calls[j].pc = "done"
        /\ calls[i].item = calls[j].item
        /\ ItemTTL(calls[i].item).secs > 0
        /\ Len(obs[i].writes) = 1 /\ Len(obs[j].writes) = 1
        /\ obs[j].writes[1].entry.setAt - obs[i].writes[1].entry.setAt
              > ItemTTL(calls[i].item).secs
        /\ ~calls[j].cached.found /\ obs[j].fetches = 1
        /\ stats[ItemCategory(calls[i].item)].miss = 2
        /\ cache[ItemKey(calls[i].item)] = obs[j].writes[1].entry

\* invocation i is in flight
InFlight(i) == calls[i].pc \notin {"idle", "done"}

\* some step of invocation i can be taken
CanStep(i) ==
    \/ ENABLED GetActivityIdSet(i)
    \/ ENABLED GetActivityCount(i)
    \/ ENABLED GetActivityHit(i)
    \/ ENABLED GetActivityFetch(i)
    \/ ENABLED GetActivityStore(i)
    \/ ENABLED GetActivityReturnFetched(i)
    \/ ENABLED GetActivityReturn(i)

\* invocations i and j read the same absent key before either wrote it
MissedTogether(i, j) ==
    /\ i # j
    /\ calls[i].op = "getActivity" /\ calls[j].op = "getActivity"
    /\ calls[i].hash = calls[j].hash
    /\ obs[i].reads = 1 /\ ~calls[i].cached.found
    /\ obs[j].reads = 1 /\ ~calls[j].cached.found

\* C10: two getActivity calls that both read the store on the same uncached
\* key before either writes it both complete and return a fetched value, and
\* the store then holds one entry for the key, with the value written last;
\* under every interleaving no call is blocked or fails because of another,
\* every write replaces the entry whatever the key held, and every entry is
\* one that calls made one after the other could have stored.
C10_ConcurrentMissesRaceHarmlessly ==
    /\ [](\A i \in 1..MaxCalls : InFlight(i) => CanStep(i))
    /\ [][/\ \A i \in 1..MaxCalls :
               /\ calls'[i].ret.kind = "throw" =>
                     (obs'[i].fetches = 1 /\ obs'[i].writes = <<>>)
               /\ WritesStore(i) =>
                     cache' = Put(cache, calls[i].hash,
                                  [val |-> calls[i].fetched, setAt |-> now,
                                   ttl |-> (IF calls[i].branch = "submission"
                                           THEN submissionTTL
                                           ELSE commentTTL).secs])
          /\ \A i, j \in 1..MaxCalls :
               (/\ MissedTogether(i, j)'
                /\ calls'[i].pc = "done" /\ calls'[i].ret.kind = "value"
                /\ calls'[j].pc = "done" /\ calls'[j].ret.kind = "value") =>
                   /\ calls'[i].ret.val = calls'[i].fetched
                   /\ calls'[j].ret.val = calls'[j].fetched
                   /\ Has(cache', calls'[i].hash)
                   /\ cache'[calls'[i].hash].val \in
                         {calls'[m].fetched : m \in {n \in 1..MaxCalls :
                                                      /\ calls'[n].hash = calls'[i].hash
                                                      /\ obs'[n].writes # <<>>}}
          /\ \A k \in DOMAIN cache' :
               /\ k[1] \in {"sub", "comm"}
               /\ cache'[k].val.name = k[2]
               /\ cache'[k].val.ver <= remote'
               /\ cache'[k].ttl = (IF k[1] = "sub" THEN submissionTTL ELSE commentTTL).secs
         ]_vars

\* both calls missed together, fetched different versions, and the entry left
\* in the store is the older version, written last
C10_Witness ==
    \E i, j \in 1..MaxCalls :
        /\ MissedTogether(i, j)
        /\ calls[i].pc = "done" /\ calls[i].ret.kind = "value"
        /\ calls[j].pc = "done" /\ calls[j].ret.kind = "value"
        /\ calls[i].fetched.ver < calls[j].fetched.ver
        /\ cache[calls[i].hash].val = calls[i].fetched
        /\ stats[calls[i].branch].miss = 2

(***************************************************************************)
(* Claims about getAuthorActivities, checked under SpecAuthor              *)
(***************************************************************************)
AuthorCalls == {i \in 1..MaxCalls : calls[i].op = "getAuthorActivities"}

OptionKeys == {"type", "window"}

\* the same author and option objects that are equal up to the order of their
\* keys (the activity type is one of the options)
SameQuery(c1, c2) ==
    /\ c1.user = c2.user
    /\ \A k \in OptionKeys : Prop(c1.options, k) = Prop(c2.options, k)

\* d seconds after an entry was stored its ttl has not elapsed
WithinTTL(d, ttl) == ttl.secs = 0 \/ d < ttl.secs

\* C9: with authorTTL enabled, getAuthorActivities calls for the same author,
\* type and options equal up to key order use one cache key, and the second
\* of them within the TTL is a hit: no listing is requested and no miss is
\* counted; calls that differ in author, type or an option value use
\* different keys and never hit each other's entries.
C9_AuthorKeyIgnoresOptionOrder ==
    [][authorTTL.enabled =>
         /\ \A i, j \in AuthorCalls' :
               SameQuery(calls'[i], calls'[j]) <=> calls'[i].hash = calls'[j].hash
         /\ \A j \in AuthorCalls :
               ReadsStore(j) =>
                  LET stored == {i \in AuthorCalls \ {j} :
                                    /\ SameQuery(calls[i], calls[j])
                                    /\ obs[i].writes # <<>>}
                      fresh == {i \in stored :
                                   WithinTTL(now - obs[i].writes[1].entry.setAt, authorTTL)}
                  IN  /\ fresh # {} =>
                            /\ calls'[j].cached.found
                            /\ ~calls'[j].miss
                            /\ obs'[j].fetches = 0
                      /\ calls'[j].cached.found => stored # {}
         /\ \A j \in AuthorCalls' :
               (calls'[j].pc = "done" /\ calls'[j].cached.found) =>
                  /\ obs'[j].fetches = 0
                  /\ obs'[j].miss["author"] = 0
                  /\ obs'[j].req["author"] = 1
                  /\ calls'[j].ret = [kind |-> "value", val |-> calls'[j].cached.val]
      ]_vars

\* a second call whose options are those of the first in another key order:
\* it hit, requested no listing, and one miss is counted for two requests
C9_Witness ==
    \E i, j \in AuthorCalls :
        /\ calls[i].pc = "done" /\ calls[j].pc = "done"
        /\ calls[i].options # calls[j].options
        /\ SameQuery(calls[i], calls[j])
        /\ obs[i].writes # <<>>
        /\ calls[j].cached.found /\ obs[j].fetches = 0
        /\ authorTTL.secs > 0 /\ now > 0
        /\ stats["author"].requests = 2 /\ stats["author"].miss = 1

(***************************************************************************)
(* Claims about BotResourcesManager and the prune timers, checked under    *)
(* SpecManager                                                             *)
(***************************************************************************)
\* the step taken is a call of set
SetStep == sets' = sets + 1

\* the step taken is a call of set for a community whose registered cache
\* has the settings hash the call computes
SetKeepsHash ==
    /\ SetStep
    /\ get(lastSet'.subName) # 0
    /\ instances[get(lastSet'.subName)].cacheSettingsHash =
          SetHash(lastSet'.initOptions.caching)

\* the step taken is a call of set for a community whose registered cache
\* has another settings hash than the call computes
SetChangesHash ==
    /\ SetStep
    /\ get(lastSet'.subName) # 0
    /\ instances[get(lastSet'.subName)].cacheSettingsHash #
          SetHash(lastSet'.initOptions.caching)

\* C11: set for a community whose cache has the settings hash newly computed
\* returns the same instance with the same backing store and every stored
\* entry intact, the statistics of the cache are reset to zero, and no new
\* store and no new timer is created.
C11_UnchangedHashReusesCache ==
    [][SetKeepsHash =>
          LET res == get(lastSet'.subName)
          IN  /\ lastSet'.ret = res
              /\ Has(resources', lastSet'.subName)
              /\ resources'[lastSet'.subName] = res
              /\ instances'[res].cache = instances[res].cache
              /\ stores'[instances[res].cache] = stores[instances[res].cache]
              /\ instances'[res].stats = [requests |-> 0, miss |-> 0]
              /\ Len(stores') = Len(stores)
              /\ Len(timers') = Len(timers)
      ]_vars

\* the prefix made of the parts of the bot's prefix and the community
ScopedPrefix(subName) == SelectSeq(botCaching.prefix \o <<subName>>, LAMBDA x : x # "")

C13_TimersBelongToRegisteredCaches ==
    /\ \A t \in DOMAIN timers :
          timers[t].owner # 0 =>
             \E c \in DOMAIN resources : resources[c] = timers[t].owner
    /\ \A t, u \in DOMAIN timers :
          (/\ timers[t].owner # 0 /\ timers[u].owner # 0
           /\ instances[timers[t].owner].name = instances[timers[u].owner].name) => t = u

\* the finite positive TTLs, in seconds, among TTLs as held by a cache
FinitePositive(ttl) == {ttl[k].secs : k \in {m \in DOMAIN ttl : ttl[m].enabled /\ ttl[m].secs > 0}}

Least(xs) == CHOOSE x \in xs : \A y \in xs : x <= y

\* the TTLs of the categories of store n, as a cache on it holds them
StoreTTLs(n) ==
    IF n = 1 THEN [k \in ResourceTTLNames |-> NormTTL(botCaching.ttl[k])]
    ELSE instances[CHOOSE i \in DOMAIN instances : instances[i].cache = n].ttl

\* the timers that are there for store n
StoreTimers(n) ==
    {t \in DOMAIN timers :
        IF n = 1 THEN timers[t].owner = 0
        ELSE timers[t].owner # 0 /\ instances[timers[t].owner].cache = n}

\* C14: an in-memory backing store that a registered cache uses and of which
\* one category at least (submission, comment, author, content, criteria) has
\* a finite positive TTL has a prune timer, of a period twice the smallest of
\* the finite positive TTLs of its categories.
C14_PrunePeriodIsTwiceSmallestTTL ==
    \A c \in DOMAIN resources :
        LET r == instances[resources[c]]
        IN  (r.cacheType = "memory" /\ FinitePositive(StoreTTLs(r.cache)) # {}) =>
               /\ StoreTimers(r.cache) # {}
               /\ \A t \in StoreTimers(r.cache) :
                     /\ ~timers[t].period.inf
                     /\ timers[t].period.secs = 2 * Least(FinitePositive(StoreTTLs(r.cache)))

\* C15: when the prune timer of a registered cache of a community has fired
\* the store that cache reads and writes holds no entry whose TTL has elapsed.
C15_CommunityTimerEvictsExpired ==
    [][\A t \in DOMAIN timers :
          (/\ timers'[t].fires = timers[t].fires + 1
           /\ timers[t].owner # 0
           /\ \E c \in DOMAIN resources : resources[c] = timers[t].owner) =>
              LET store == stores'[instances[timers[t].owner].cache]
              IN  \A k \in DOMAIN store :
                     store[k].ttl = 0 \/ now - store[k].setAt <= store[k].ttl
      ]_vars

(***************************************************************************)
(* Claims about the named rules and actions of a configuration, checked    *)
(* under SpecConfig                                                        *)
(***************************************************************************)
\* the rules and strings of a rules list and of the rule sets in it, in the
\* order of the document
RECURSIVE Flatten(_, _)
Flatten(ruleList, i) ==
    IF i > Len(ruleList) THEN <<>>
    ELSE (IF ruleList[i].t = "set" THEN Flatten(ruleList[i].rules, 1) ELSE <<ruleList[i]>>)
         \o Flatten(ruleList, i + 1)

RECURSIVE DocRulesFrom(_, _)
DocRulesFrom(checks, i) ==
    IF i > Len(checks) THEN <<>>
    ELSE Flatten(checks[i].rules, 1) \o DocRulesFrom(checks, i + 1)

RECURSIVE DocActionsFrom(_, _)
DocActionsFrom(checks, i) ==
    IF i > Len(checks) THEN <<>>
    ELSE checks[i].actions \o DocActionsFrom(checks, i + 1)

\* the rules and strings (the actions and strings) of a document, in its order
DocRules(checks) == DocRulesFrom(checks, 1)
DocActions(checks) == DocActionsFrom(checks, 1)

\* the inline named definitions and the string references among members
Defs(members) == SelectSeq(members, LAMBDA x : x.t # "string" /\ x.hasName)
Refs(members) == SelectSeq(members, LAMBDA x : x.t = "string")

\* a name trimmed and lower-cased; a name lower-cased
Normalized(n) == [base |-> n.base, upper |-> FALSE, pad |-> FALSE]
LowerCased(n) == [base |-> n.base, upper |-> FALSE, pad |-> n.pad]

\* a definition without its name field
Stripped(x) == [t |-> x.t, body |-> x.body]

\* the names that two definitions with unequal bodies share once normalized
ConflictingNames(defs) ==
    {defs[i].name : i \in {m \in 1..Len(defs) :
        \E n \in 1..Len(defs) : /\ Normalized(defs[m].name) = Normalized(defs[n].name)
                                /\ Stripped(defs[m]) # Stripped(defs[n])}}

\* the first of the definitions with the normalized name of n
FirstDeclared(defs, n) ==
    defs[CHOOSE i \in 1..Len(defs) :
            /\ Normalized(defs[i].name) = Normalized(n)
            /\ \A j \in 1..(i - 1) : Normalized(defs[j].name) # Normalized(n)]

\* C16: when two inline named rules, or two inline named actions, anywhere in
\* the document (one check, two checks, nested rule sets) have the same
\* trimmed and lower-cased name and bodies that are not equal once the name
\* is taken out, resolution fails with an error that names a conflicting
\* name and no structured check is returned.
C16_ConflictingNamesFail ==
    LET rc == ConflictingNames(Defs(DocRules(config)))
        ac == ConflictingNames(Defs(DocActions(config)))
    IN  (parsed.state # "none" /\ (rc # {} \/ ac # {})) =>
           /\ parsed.state = "thrown"
           /\ parsed.structuredChecks = <<>>
           /\ \/ parsed.err.kind = "rule conflict" /\ parsed.err.name \in rc
              \/ parsed.err.kind = "action conflict" /\ parsed.err.name \in ac

\* members: two definitions at least have the lower-cased name of n, and all
\* the definitions with its normalized name have equal bodies
DeclaredTwiceAlike(defs, n) ==
    /\ \E i, j \in 1..Len(defs) :
          /\ i # j
          /\ LowerCased(defs[i].name) = LowerCased(n)
          /\ LowerCased(defs[j].name) = LowerCased(n)
          /\ Stripped(defs[i]) = Stripped(defs[j])
    /\ \A i \in 1..Len(defs) : defs[i].name \notin ConflictingNames(defs)

\* what C17 says of the members of one kind, outMembers being what they
\* were resolved to
MergedAsOne(members, outMembers, conflictKind, missingKind) ==
    \A r \in 1..Len(members) :
        (members[r].t = "string" /\ DeclaredTwiceAlike(Defs(members), members[r].name)) =>
            /\ ~(parsed.err.kind = conflictKind
                 /\ Normalized(parsed.err.name) = Normalized(members[r].name))
            /\ ~(parsed.err.kind = missingKind /\ parsed.err.name = members[r].name)
            /\ parsed.state = "returned" =>
                  outMembers[r] = FirstDeclared(Defs(members), members[r].name)

\* C17: two inline definitions with the same case-insensitive name and equal
\* bodies raise no error and are one registry entry: every string reference
\* to that name, in whatever check, is resolved, and to the first definition
\* of the name in the order of the document.
C17_EqualDefinitionsMerge ==
    parsed.state # "none" =>
       /\ MergedAsOne(DocRules(config), DocRules(parsed.structuredChecks),
                      "rule conflict", "no named rule")
       /\ MergedAsOne(DocActions(config), DocActions(parsed.structuredChecks),
                      "action conflict", "no named action")

\* the string references among members that no definition among them has
\* the normalized name of
Unmatched(members) ==
    {members[r].name : r \in {m \in 1..Len(members) :
        /\ members[m].t = "string"
        /\ \A d \in 1..Len(Defs(members)) :
              Normalized(Defs(members)[d].name) # Normalized(members[m].name)}}

RefNames(members) == {Refs(members)[r].name : r \in 1..Len(Refs(members))}

WithRules(checks) == [i \in 1..Len(checks) |-> [checks[i] EXCEPT !.hasRules = TRUE]]

RECURSIVE SameShape(_, _, _)
SameShape(inList, outList, defs) ==
    /\ Len(outList) = Len(inList)
    /\ \A i \in 1..Len(inList) :
          IF inList[i].t = "set"
          THEN /\ outList[i].t = "set"
               /\ outList[i].condition = inList[i].condition
               /\ SameShape(inList[i].rules, outList[i].rules, defs)
          ELSE IF inList[i].t = "string"
          THEN \E d \in 1..Len(defs) :
                  /\ outList[i] = defs[d]
                  /\ Normalized(defs[d].name) = Normalized(inList[i].name)
          ELSE outList[i] = inList[i]

\* C20: the checks returned are as many as the checks of the document, in
\* their order; the rules and the actions of each, and the rules of every
\* nested rule set, have the members of the document in their order, the
\* rule sets with their condition, the inline objects as they are, and at
\* the place of a string the definition it names.
C20_ShapeAndOrderPreserved ==
    parsed.state = "returned" =>
       /\ Len(parsed.structuredChecks) = Len(config)
       /\ \A i \in 1..Len(config) :
             /\ parsed.structuredChecks[i].id = config[i].id
             /\ SameShape(config[i].rules, parsed.structuredChecks[i].rules,
                          Defs(DocRules(config)))
             /\ SameShape(config[i].actions, parsed.structuredChecks[i].actions,
                          Defs(DocActions(config)))

\* two checks; the second has a string before a rule set with a definition,
\* and got the definition of the first check at the place of the string
C20_Witness ==
    /\ parsed.state = "returned"
    /\ Len(config) = 2
    /\ Len(config[1].rules) = 1 /\ config[1].rules[1].t = "rule"
    /\ Len(config[2].rules) = 2
    /\ config[2].rules[1].t = "string"
    /\ config[2].rules[2].t = "set"
    /\ parsed.structuredChecks[2].rules[1] = config[1].rules[1]
    /\ parsed.structuredChecks[2].rules[2] = config[2].rules[2]

\* what C21 says of the members of one kind: a string that a definition of
\* the document has the normalized name of is not reported as unresolved,
\* and on success stands replaced by the definition of that name
SharedDocumentWide(members, outMembers, missingKind) ==
    \A r \in 1..Len(members) :
        (/\ members[r].t = "string"
         /\ members[r].name \notin Unmatched(members)) =>
            /\ ~(parsed.err.kind = missingKind /\ parsed.err.name = members[r].name)
            /\ parsed.state = "returned" =>
                  outMembers[r] = FirstDeclared(Defs(members), members[r].name)

\* C21: names are shared by the whole document: a string reference in any
\* check is resolved to the definition with its normalized name, whether
\* that definition is in an earlier or a later check, at the top of the
\* check or in a rule set nested in it at any depth.
C21_NamesSharedDocumentWide ==
    parsed.state # "none" =>
       /\ SharedDocumentWide(DocRules(config), DocRules(parsed.structuredChecks),
                             "no named rule")
       /\ SharedDocumentWide(DocActions(config), DocActions(parsed.structuredChecks),
                             "no named action")

\* C30: under OR, run returns triggered = true exactly when some applicable
\* child passed; a set with an applicable child and no passing child returns
\* false, with the results of all its children.
C30_OrTriggersOnlyOnPassingChild ==
    (rsPc = "done" /\ condition = "OR") =>
        /\ rsRet.returned
        /\ rsRet.triggered = HasChild("true")
        /\ (HasChild("false") /\ ~HasChild("true")) =>
              /\ rsRet.results = ResultsUpTo(Len(rules))
              /\ Len(rsCalls) = Len(rules)

\* C28: when item.fetch() rejects inside getActivity, getActivity throws the
\* error the fetch rejected with, and is not undefined nor another value,
\* and has written nothing to the store.
C28_FetchFailureIsRethrown ==
    \A i \in 1..MaxCalls :
        (calls[i].op = "getActivity" /\ calls[i].err # NoThrown) =>
            /\ calls[i].pc = "done"
            /\ calls[i].ret.kind = "throw"
            /\ calls[i].thrown = calls[i].err
            /\ obs[i].writes = <<>>

(***************************************************************************)
(* Claims about the item criteria, checked under SpecItem                  *)
(***************************************************************************)
\* the calls of testItemCriteria that returned a value
Returned(n) == lastCall[n].op = "testItemCriteria" /\ lastCall[n].ret.kind = "value"

\* the submission a comment is on
ParentOf(item) == [kind |-> "submission", name |-> link_id(item)]

\* a key an entry declares that is not to be tested on the activity: its
\* property is absent from the activity or the key is not legal for its type
Inapplicable(item, f) ==
    \/ f.k = "submissionState" /\ item.kind = "submission"
    \/ f.k = "title" /\ item.kind = "comment"
    \/ f.k \notin {"submissionState", "title", "removed", "deleted", "filtered"}
       /\ ItemProp(item, f.k) = "undefined"

\* the keys an entry declares
Declared(crit) == SelectSeq(crit, LAMBDA f : f.v # "undefined")

RECURSIVE Matches(_, _)
RECURSIVE FieldMatches(_, _)

\* the key, being applicable, matches the activity
FieldMatches(item, f) ==
    IF f.k = "submissionState" THEN Matches(ParentOf(item), f.states)
    ELSE IF f.k \in {"removed", "deleted", "filtered"} THEN ActivityFlag(item, f.k) = f.v
    ELSE IF f.k = "title" THEN f.v \in {"m", "n"} /\ f.v = ItemProp(item, "title")
    ELSE ItemProp(item, f.k) = f.v

\* every declared, applicable key of the entry matches
EntryMatches(item, crit) ==
    \A m \in 1..Len(Declared(crit)) :
        Inapplicable(item, Declared(crit)[m]) \/ FieldMatches(item, Declared(crit)[m])

\* the list is empty or some entry of it matches
Matches(item, stateList) ==
    stateList = <<>> \/ \E e \in 1..Len(stateList) : EntryMatches(item, stateList[e])

\* the keys of entry e that are looked at: those up to the first that is
\* applicable and does not match
KeysSeen(item, crit, e) ==
    LET d == Declared(crit)
        bad == {m \in 1..Len(d) : ~Inapplicable(item, d[m]) /\ ~FieldMatches(item, d[m])}
        upto == IF bad = {} THEN Len(d)
                ELSE CHOOSE m \in bad : \A x \in bad : m <= x
    IN  [m \in 1..upto |-> [item |-> item.name, entry |-> e, k |-> d[m].k]]

\* the keys looked at in the entries from e on, up to the first that matches
RECURSIVE EntriesSeen(_, _, _)
EntriesSeen(item, stateList, e) ==
    IF e > Len(stateList) THEN <<>>
    ELSE KeysSeen(item, stateList[e], e)
         \o (IF EntryMatches(item, stateList[e]) THEN <<>>
             ELSE EntriesSeen(item, stateList, e + 1))

\* C22: isItem returns true exactly when the list is empty or some entry
\* has every declared, applicable key matching the activity; it looks at
\* the entries in their order up to the first that passes, and at the keys
\* of an entry in their order up to the first that fails.
C22_EntriesOrFieldsAnd ==
    \A n \in 1..Len(lastCall) :
        Returned(n) =>
            /\ lastCall[n].ret.val = Matches(lastCall[n].item, stateCriteria)
            /\ ~filterCriteriaTTL.enabled =>
                  /\ lastCall[n].runs >= 1
                  /\ SelectSeq(lastCall[n].trace,
                               LAMBDA t : t.item = lastCall[n].item.name)
                        = EntriesSeen(lastCall[n].item, stateCriteria, 1)

\* the first entry failed on its first key, its second key was not looked
\* at, and the second entry passed
C22_Witness ==
    /\ ~filterCriteriaTTL.enabled
    /\ Len(lastCall) = 1
    /\ Returned(1)
    /\ Len(stateCriteria) = 2
    /\ Len(stateCriteria[1]) = 2
    /\ lastCall[1].trace = <<[item |-> lastCall[1].item.name, entry |-> 1,
                              k |-> stateCriteria[1][1].k]>>
    /\ lastCall[1].ret.val = TRUE

\* C23: a key that names a property the activity has not, or that is not
\* legal for the type of the activity, never makes its entry fail: an entry
\* of such keys alone passes, and an entry of such keys and others passes
\* exactly when the others match.
C23_InapplicableFieldIsSkipped ==
    \A n \in 1..Len(lastCall) :
        (/\ Returned(n)
         /\ Len(stateCriteria) = 1
         /\ \E m \in 1..Len(stateCriteria[1]) :
               /\ stateCriteria[1][m].v # "undefined"
               /\ Inapplicable(lastCall[n].item, stateCriteria[1][m])) =>
            lastCall[n].ret.val =
                (\A m \in 1..Len(stateCriteria[1]) :
                    \/ stateCriteria[1][m].v = "undefined"
                    \/ Inapplicable(lastCall[n].item, stateCriteria[1][m])
                    \/ FieldMatches(lastCall[n].item, stateCriteria[1][m]))

\* an entry of a property no activity has and of submissionState, tested on
\* a submission, passed
C23_Witness ==
    /\ Len(lastCall) = 1
    /\ Returned(1)
    /\ lastCall[1].item = SubmissionS
    /\ Len(stateCriteria) = 1
    /\ Len(stateCriteria[1]) = 2
    /\ stateCriteria[1][1].k = "flair"
    /\ stateCriteria[1][2].k = "submissionState"
    /\ lastCall[1].ret.val = TRUE

\* the entry has a title that is no regular expression
InvalidTitle(crit) ==
    \E m \in 1..Len(crit) : crit[m].k = "title" /\ crit[m].v = "("

\* C24: a title that is no regular expression makes its entry a non-match
\* and raises no error: the list, of a submission or nested in the
\* submissionState of a comment, passes when another entry matches and
\* returns false otherwise.
C24_InvalidPatternIsNonMatch ==
    \A n \in 1..Len(lastCall) :
        LET c == lastCall[n]
            others(stateList) ==
                \E e \in 1..Len(stateList) :
                    ~InvalidTitle(stateList[e]) /\ EntryMatches(SubmissionS, stateList[e])
        IN  /\ (/\ c.op = "testItemCriteria"
                /\ c.item = SubmissionS
                /\ \E e \in 1..Len(stateCriteria) : InvalidTitle(stateCriteria[e])) =>
                   /\ c.ret.kind = "value"
                   /\ c.ret.val = others(stateCriteria)
            /\ (/\ c.op = "testItemCriteria"
                /\ c.item.kind = "comment"
                /\ c.fault = NoFault
                /\ Len(stateCriteria) = 1
                /\ Len(stateCriteria[1]) = 1
                /\ stateCriteria[1][1].k = "submissionState"
                /\ \E e \in 1..Len(stateCriteria[1][1].states) :
                      InvalidTitle(stateCriteria[1][1].states[e])) =>
                   /\ c.ret.kind = "value"
                   /\ c.ret.val = others(stateCriteria[1][1].states)

\* the first entry of a submission's list has a title that is no regular
\* expression, the second matches, and the list passed
C24_Witness ==
    /\ Len(lastCall) = 1
    /\ lastCall[1].item = SubmissionS
    /\ Len(stateCriteria) = 2
    /\ stateCriteria[1] = <<Field("title", "(")>>
    /\ stateCriteria[2] = <<Field("removed", "false")>>
    /\ lastCall[1].ret.kind = "value"
    /\ lastCall[1].ret.val = TRUE

\* the store after call n
StoreAfter(n) == IF n < Len(lastCall) THEN lastCall[n + 1].before ELSE cache

\* the keys of the item criteria in a store
ItemCritKeys(store) == {k \in DOMAIN store : k[1] = "itemCrit"}

\* C25: with the item criteria cached, testItemCriteria on a comment with
\* one entry whose only key is submissionState makes the cache key from the
\* parent submission and the nested list: the comments of one submission
\* share one entry, and a call that finds it unexpired returns it without
\* running the matcher.
C25_SubmissionStateKeysToSubmission ==
    \A n \in 1..Len(lastCall) :
        LET c == lastCall[n]
            key == <<"itemCrit", link_id(c.item), HashStates(stateCriteria[1][1].states)>>
        IN  (/\ filterCriteriaTTL.enabled
             /\ Returned(n)
             /\ c.item.kind = "comment"
             /\ Len(stateCriteria) = 1
             /\ Len(stateCriteria[1]) = 1
             /\ stateCriteria[1][1].k = "submissionState") =>
                /\ key \in ItemCritKeys(StoreAfter(n))
                /\ ItemCritKeys(StoreAfter(n)) \subseteq ItemCritKeys(c.before) \cup {key}
                /\ \A k \in ItemCritKeys(StoreAfter(n)) : k[2] # c.item.name
                /\ (key \in DOMAIN c.before
                    /\ c.at - c.before[key].setAt <= c.before[key].ttl) =>
                       /\ c.runs = 0
                       /\ c.ret.val = c.before[key].val
                       /\ StoreAfter(n)[key] = c.before[key]
                /\ key \notin DOMAIN c.before => c.runs = 1

\* two comments of one submission were tested one after the other, the
\* second call ran no matcher and the store has one entry for both
C25_Witness ==
    /\ filterCriteriaTTL.enabled
    /\ Len(lastCall) = 2
    /\ lastCall[1].item = CommentC /\ Returned(1) /\ lastCall[1].runs = 1
    /\ lastCall[2].item = CommentD /\ Returned(2) /\ lastCall[2].runs = 0
    /\ stateCriteria = << <<SubmissionStateField(<< <<Field("title", "m")>> >>)>> >>
    /\ Cardinality(ItemCritKeys(cache)) = 1
    /\ lastCall[2].ret.val = TRUE

(***************************************************************************)
(* Claims about getContent and the check result cache, checked under       *)
(* SpecContent                                                             *)
(***************************************************************************)
\* the statistics after call n
StatsAfter(n) == IF n < Len(lastCall) THEN lastCall[n + 1].counted ELSE stats

\* an entry of the store that a get at moment t still delivers
Unexpired(e, t) == e.ttl = 0 \/ t - e.setAt <= e.ttl

\* call n is a getContent whose value is a reference, whose content the
\* store did not deliver and whose lookup at the source was rejected
LookupFailed(n) ==
    LET c == lastCall[n]
    IN  /\ c.op = "getContent"
        /\ c.arg.val.kind \in {"wiki", "url"}
        /\ ~c.arg.lookup.ok
        /\ ~(/\ wikiTTL.enabled
             /\ ContentHash(c.arg.val) \in DOMAIN c.before
             /\ Unexpired(c.before[ContentHash(c.arg.val)], c.at))

\* C26: when the wiki or URL lookup inside getContent fails, getContent
\* throws and returns no value, writes no entry to the store, so that the
\* next call for the reference looks it up again, and the error carries the
\* page-not-found message for status 404, the permission message for 401 and
\* 403 and the fetch-error message for a URL.
C26_FailedLookupThrowsAndStoresNothing ==
    \A n \in 1..Len(lastCall) :
        LET c == lastCall[n]
        IN  LookupFailed(n) =>
                /\ c.ret.kind = "throw"
                /\ c.runs = 1
                /\ c.logs = 1
                /\ c.ret.thrown.logged = "true"
                /\ ContentHash(c.arg.val) \notin DOMAIN StoreAfter(n)
                /\ DOMAIN StoreAfter(n) \subseteq DOMAIN c.before
                /\ (c.arg.val.kind = "wiki" /\ c.arg.lookup.statusCode = 404) =>
                       c.ret.thrown.msg = "Could not find a wiki page"
                /\ (c.arg.val.kind = "wiki" /\ c.arg.lookup.statusCode \in {401, 403}) =>
                       c.ret.thrown.msg = "Bot either does not have permission"
                /\ c.arg.val.kind = "url" =>
                       c.ret.thrown.msg = "Error occurred while trying to fetch the url"
                /\ (/\ n < Len(lastCall)
                    /\ lastCall[n + 1].op = "getContent"
                    /\ lastCall[n + 1].arg.val = c.arg.val) =>
                       lastCall[n + 1].runs = 1

\* with content cached, the lookup of a wiki page was answered with a 403
\* and threw, and the next call for the page looked it up again, got the
\* content and stored it
C26_Witness ==
    /\ wikiTTL.enabled
    /\ Len(lastCall) = 2
    /\ LookupFailed(1)
    /\ lastCall[1].arg.val = WikiVal("rules", "")
    /\ lastCall[1].arg.lookup.statusCode = 403
    /\ lastCall[1].ret.kind = "throw"
    /\ lastCall[2].op = "getContent"
    /\ lastCall[2].arg.val = WikiVal("rules", "")
    /\ lastCall[2].ret.kind = "value"
    /\ lastCall[2].runs = 1
    /\ ContentHash(WikiVal("rules", "")) \in DOMAIN cache

\* call n gets and call m sets the check result of one author, one
\* submission and one check configuration
SameCheck(m, n) ==
    /\ getActivityAuthorName(lastCall[m].arg.item) = getActivityAuthorName(lastCall[n].arg.item)
    /\ link_id(lastCall[m].arg.item) = link_id(lastCall[n].arg.item)
    /\ lastCall[m].arg.checkConfig = lastCall[n].arg.checkConfig

\* the calls before call n that set the result call n gets
SetsBefore(n) ==
    {m \in 1..(n - 1) : lastCall[m].op = "setCommentCheckCacheResult" /\ SameCheck(m, n)}

\* the last of them
LastSetBefore(n) == CHOOSE m \in SetsBefore(n) : \A k \in SetsBefore(n) : k <= m

\* call n returned undefined and counted one miss
UndefinedAndMiss(n) ==
    /\ lastCall[n].ret.kind = "undefined"
    /\ StatsAfter(n)["commentCheck"].miss = lastCall[n].counted["commentCheck"].miss + 1

\* call n returned the result and counted no miss
ReturnedResult(n, result) ==
    /\ lastCall[n].ret.kind = "value"
    /\ lastCall[n].ret.val = result
    /\ StatsAfter(n)["commentCheck"].miss = lastCall[n].counted["commentCheck"].miss

\* C27, as stated: after setCommentCheckCacheResult(item, checkConfig,
\* result, ttl), getCommentCheckCacheResult for the same author, submission
\* and check configuration returns the result until ttl seconds have elapsed;
\* for another author, submission or check configuration, or after the ttl
\* has elapsed, it returns undefined and counts a miss.
C27_ResultUntilTTLElapsed ==
    \A n \in 1..Len(lastCall) :
        lastCall[n].op = "getCommentCheckCacheResult" =>
            IF SetsBefore(n) = {} THEN UndefinedAndMiss(n)
            ELSE LET s == lastCall[LastSetBefore(n)]
                 IN  /\ lastCall[n].at - s.at < s.arg.ttl => ReturnedResult(n, s.arg.result)
                     /\ lastCall[n].at - s.at > s.arg.ttl => UndefinedAndMiss(n)

\* C27, amended: after a set with a ttl above 0 the result of the last set
\* is returned while no more than ttl seconds have elapsed and undefined is
\* returned and a miss counted afterwards; after a set with ttl 0 the result
\* is returned whatever time has elapsed; for an author, submission or check
\* configuration no result was set for, undefined is returned and a miss
\* counted.
C27_ResultWhileUnexpired ==
    \A n \in 1..Len(lastCall) :
        lastCall[n].op = "getCommentCheckCacheResult" =>
            IF SetsBefore(n) = {} THEN UndefinedAndMiss(n)
            ELSE LET s == lastCall[LastSetBefore(n)]
                 IN  IF s.arg.ttl = 0 \/ lastCall[n].at - s.at <= s.arg.ttl
                     THEN ReturnedResult(n, s.arg.result)
                     ELSE UndefinedAndMiss(n)

\* a result was set for alice on a submission with a ttl above 0 and was
\* returned for another comment of alice's on the submission exactly ttl
\* seconds later
C27_Witness ==
    /\ Len(lastCall) = 2
    /\ lastCall[1].op = "setCommentCheckCacheResult"
    /\ lastCall[1].arg.ttl > 0
    /\ lastCall[2].op = "getCommentCheckCacheResult"
    /\ SameCheck(1, 2)
    /\ lastCall[2].at - lastCall[1].at = lastCall[1].arg.ttl
    /\ ReturnedResult(2, lastCall[1].arg.result)

\* C29: whenever no cache operation is in flight, every category has
\* recorded as many request timestamps as it has counted requests.
C29_TimestampsMatchRequests ==
    Quiet => \A c \in Categories : Len(stats[c].requestTimestamps) = stats[c].requests

(***************************************************************************)
(* Further claims about RuleSet.run, checked under SpecRuleSet             *)
(***************************************************************************)
\* C31: under AND, run returns triggered = true exactly when at least one
\* child is applicable and no applicable child fails; then every child was
\* run, in declared order, and the result list has one entry per child in
\* declared order.
C31_AndTriggersIffNoApplicableFails ==
    (rsPc = "done" /\ condition = "AND") =>
        /\ rsRet.returned
        /\ rsRet.triggered = (HasChild("true") /\ ~HasChild("false"))
        /\ rsRet.triggered =>
              /\ rsRet.results = ResultsUpTo(Len(rules))
              /\ Len(rsCalls) = Len(rules)
              /\ \A i \in 1..Len(rules) : rsCalls[i].rule = rules[i].name

\* an AND set of a child that is not applicable and a child that passes has
\* returned true with both results
C31_Witness ==
    /\ rsPc = "done"
    /\ condition = "AND"
    /\ Len(rules) = 2
    /\ rules[1].passed = "null"
    /\ rules[2].passed = "true"
    /\ rsRet.triggered
    /\ Len(rsRet.results) = 2

(***************************************************************************)
(* Further claims about the resolver, checked under SpecConfig             *)
(***************************************************************************)
\* what C32 says of the members of one kind, outMembers being what they
\* were resolved to: a string that is the name of a definition as written
IdenticalNameResolves(members, outMembers, missingKind) ==
    \A r \in 1..Len(members) :
        (/\ members[r].t = "string"
         /\ \E d \in 1..Len(Defs(members)) : Defs(members)[d].name = members[r].name) =>
            /\ ~(parsed.err.kind = missingKind /\ parsed.err.name = members[r].name)
            /\ parsed.state = "returned" =>
                  \E d \in 1..Len(Defs(members)) :
                      /\ Defs(members)[d].name = members[r].name
                      /\ Stripped(outMembers[r]) = Stripped(Defs(members)[d])

\* C32: registration and lookup use the same key: a reference written as
\* the very string that is the name of an inline rule or action is resolved
\* to that definition, whatever the name, surrounding whitespace and upper
\* case included.
C32_IdenticalNameResolves ==
    parsed.state # "none" =>
       /\ IdenticalNameResolves(DocRules(config), DocRules(parsed.structuredChecks),
                                "no named rule")
       /\ IdenticalNameResolves(DocActions(config), DocActions(parsed.structuredChecks),
                                "no named action")

(***************************************************************************)
(* Further claims about the item criteria, checked under SpecItem          *)
(***************************************************************************)
\* isItem(i, s) on the activity that call n was handed, at the moment of
\* the call, by a resource cache that does not cache item criteria
DirectIsItem(n) ==
    isItem(lastCall[n].item, stateCriteria,
           [submissionTTL |-> submissionTTL, commentTTL |-> commentTTL,
            filterCriteriaTTL |-> TTLFalse, now |-> lastCall[n].at,
            fault |-> lastCall[n].fault],
           StartOf(<<>>, [c \in Categories |-> EmptyStats]))

\* C33: caching is transparent to the result of testing item criteria: on
\* an empty store testItemCriteria with the criteria cached returns the
\* boolean that isItem, called directly on the activity it was handed,
\* returns, also when the parent submission is tested in the comment's place;
\* and it throws when the direct call throws.
C33_CachingIsTransparent ==
    \A n \in 1..Len(lastCall) :
        (/\ filterCriteriaTTL.enabled
         /\ lastCall[n].op = "testItemCriteria"
         /\ lastCall[n].before = <<>>) =>
            /\ lastCall[n].ret.kind = DirectIsItem(n).ret.kind
            /\ lastCall[n].ret.kind = "value" =>
                  lastCall[n].ret.val = DirectIsItem(n).ret.val

\* with the criteria cached and the store empty, a comment whose one entry
\* has submissionState as its only key was tested through its submission,
\* and the nested title did not match
C33_Witness ==
    /\ filterCriteriaTTL.enabled
    /\ Len(lastCall) = 1
    /\ lastCall[1].before = <<>>
    /\ lastCall[1].item = CommentC
    /\ stateCriteria = << <<SubmissionStateField(<< <<Field("title", "n")>> >>)>> >>
    /\ lastCall[1].ret.kind = "value"
    /\ lastCall[1].ret.val = FALSE
    /\ lastCall[1].runs = 1

(***************************************************************************)
(* Claims about the statistics under interleaving, checked under           *)
(* SpecReload and SpecActivity                                             *)
(***************************************************************************)
\* C34: in every reachable state every category has counted at most as
\* many misses as requests, however invocations interleave with each other
\* and with a set that reuses the cache and replaces its statistics.
C34_MissesAtMostRequests ==
    \A c \in Categories : stats[c].miss <= stats[c].requests

\* the completed invocations of getActivity that counted a request for
\* identifier h in category c
CountedRequests(c, h) ==
    {i \in 1..MaxCalls : /\ calls[i].op = "getActivity"
                         /\ calls[i].pc = "done"
                         /\ calls[i].branch = c
                         /\ calls[i].hash = h}

\* C35: once every invocation has completed, the per-identifier request
\* count of an identifier is the number of counted requests made for it,
\* also when the requests for it interleaved.
C35_IdentifierCountIsExact ==
    Quiet =>
        \A c \in {"submission", "comment"} :
            \A item \in Items :
                IdWrap(stats[c].identifierRequestCount, ActivityHash(c, item))
                    = Cardinality(CountedRequests(c, ActivityHash(c, item)))

(***************************************************************************)
(* Further claims about BotResourcesManager, checked under SpecManager and *)
(* SpecShared                                                              *)
(***************************************************************************)
\* C36: a call of set for one community removes no entry of another: every
\* entry that another community, registered in the manager, has stored in
\* the store its cache uses, the shared store included, is there after the
\* call as it was before.
C36_SetKeepsEntriesOfOthers ==
    [][SetStep =>
          \A b \in DOMAIN resources :
              b # lastSet'.subName =>
                 LET s == instances[resources[b]].cache
                 IN  \A k \in DOMAIN stores[s] :
                        stores[s][k].val.name = b =>
                           /\ k \in DOMAIN stores'[s]
                           /\ stores'[s][k] = stores[s][k]
      ]_vars

\* C37: a resource cache none of whose categories has a finite positive
\* TTL (each is false, 0 or true) was constructed without a prune timer:
\* every timer of a resource cache belongs to one with such a TTL.
C37_NoTimerWithoutFinitePositiveTTL ==
    \A t \in DOMAIN timers :
        timers[t].owner # 0 => FinitePositive(instances[timers[t].owner].ttl) # {}

\* the footer a configuration supplies: its text, false, or the default
\* when it has none
SuppliedFooter(initOptions) ==
    IF initOptions.footer = "undefined" THEN DEFAULT_FOOTER ELSE initOptions.footer

\* C38: the resource cache that set returns, new or reused, has the footer
\* the configuration supplies: a text as it is, false as false, and the
\* default footer only when the configuration has none.
C38_FooterIsTheOneSupplied ==
    [][SetStep =>
          instances'[lastSet'.ret].footer = SuppliedFooter(lastSet'.initOptions)
      ]_vars

(***************************************************************************)
(* Claims about failures of the item criteria, checked under SpecItemFault *)
(***************************************************************************)
\* C39: a failure that is not tagged as logged and is raised while item
\* criteria are tested is logged exactly once by the resource cache and then
\* thrown as it was raised, also when it is raised in the testItemCriteria
\* that isItem calls on the parent submission of a comment.
C39_FailureLoggedOnceAndRethrown ==
    \A n \in 1..Len(lastCall) :
        (/\ lastCall[n].op = "testItemCriteria"
         /\ lastCall[n].ret.kind = "throw"
         /\ lastCall[n].fault.err.logged # "true") =>
            /\ lastCall[n].logs = 1
            /\ lastCall[n].ret.thrown = lastCall[n].fault.err
====
